---------------------------- MODULE Spec2Model ----------------------------
(***************************************************************************)
(* Polybet backend: resolution of the configured featured markets against  *)
(* the Gamma API (backend/clob_client.py) and the 15-minute window         *)
(* arithmetic it relies on (backend/utils.py).                             *)
(*                                                                         *)
(* Python strings are modelled as sequences of one-character strings, so   *)
(* that split / join / isdigit / lower / substring tests are computed the  *)
(* way the code computes them.                                             *)
(***************************************************************************)
EXTENDS Integers, Sequences, FiniteSets, TLC

VARIABLES
    featured_conditions, \* self.featured_conditions, the configured identifiers
    clock,               \* the wall clock, Unix seconds (UTC)
    pc,                  \* position inside get_featured_markets and the cascade
    idx,                 \* 1-based position of the for loop over featured_conditions
    featured,            \* the local list `featured` of get_featured_markets
    ret,                 \* what get_featured_markets returned (NotReturned before)
    current_timestamp,   \* local of _fetch_active_market_by_pattern
    step,                \* position in the offsets loop of the pattern search
    resolved,            \* history: what _fetch_market_by_slug_or_condition_id
                         \* returned for each identifier tried so far (line 366)
    log,                 \* history: external requests of the current identifier
    observe,             \* whether the history is recorded in this run
    arg,                 \* argument of a function applied on its own
    result               \* what that function returned

vars == <<featured_conditions, clock, pc, idx, featured, ret,
          current_timestamp, step, resolved, log, observe, arg, result>>

---------------------------------------------------------------------------
(* Python str primitives                                                   *)

Digits == <<"0", "1", "2", "3", "4", "5", "6", "7", "8", "9">>

UpperCase == <<"A", "B", "C", "D", "E", "F", "G", "H", "I", "J", "K", "L", "M",
               "N", "O", "P", "Q", "R", "S", "T", "U", "V", "W", "X", "Y", "Z">>

LowerCase == <<"a", "b", "c", "d", "e", "f", "g", "h", "i", "j", "k", "l", "m",
               "n", "o", "p", "q", "r", "s", "t", "u", "v", "w", "x", "y", "z">>

\* 1-based position of c in alphabet, 0 when absent
IndexOf(alphabet, c) ==
    IF \E n \in 1..Len(alphabet) : alphabet[n] = c
    THEN CHOOSE n \in 1..Len(alphabet) : alphabet[n] = c
    ELSE 0

\* str.lower()
lower(s) ==
    [n \in 1..Len(s) |->
        LET upper == IndexOf(UpperCase, s[n])
        IN  IF upper > 0 THEN LowerCase[upper] ELSE s[n]]

\* str.isdigit(): non-empty and every character a digit
isdigit(s) ==
    /\ Len(s) > 0
    /\ \A n \in 1..Len(s) : IndexOf(Digits, s[n]) > 0

\* needle in hay
contains(hay, needle) ==
    \E n \in 1..(Len(hay) - Len(needle) + 1) :
        SubSeq(hay, n, n + Len(needle) - 1) = needle

\* str.startswith
startswith(s, prefix) ==
    /\ Len(prefix) <= Len(s)
    /\ SubSeq(s, 1, Len(prefix)) = prefix

\* str.strip(): leading and trailing blanks removed
RECURSIVE strip(_)
strip(s) ==
    IF Len(s) > 0 /\ s[1] = " " THEN strip(Tail(s))
    ELSE IF Len(s) > 0 /\ s[Len(s)] = " " THEN strip(SubSeq(s, 1, Len(s) - 1))
    ELSE s

\* str.split(sep) for a one-character separator
RECURSIVE split(_, _)
split(s, sep) ==
    IF \E n \in 1..Len(s) : s[n] = sep
    THEN LET n == CHOOSE m \in 1..Len(s) :
                     /\ s[m] = sep
                     /\ \A j \in 1..(m - 1) : s[j] # sep
         IN  <<SubSeq(s, 1, n - 1)>> \o split(SubSeq(s, n + 1, Len(s)), sep)
    ELSE <<s>>

\* sep.join(parts)
RECURSIVE join(_, _)
join(parts, sep) ==
    IF Len(parts) = 0 THEN <<>>
    ELSE IF Len(parts) = 1 THEN parts[1]
    ELSE parts[1] \o <<sep>> \o join(Tail(parts), sep)

\* int(s) for a string of digits
RECURSIVE int(_)
int(s) ==
    IF Len(s) = 0 THEN 0
    ELSE int(SubSeq(s, 1, Len(s) - 1)) * 10 + (IndexOf(Digits, s[Len(s)]) - 1)

\* str(n) for an integer, as an f-string formats it
RECURSIVE str(_)
str(n) ==
    IF n < 0 THEN <<"-">> \o str(0 - n)
    ELSE IF n < 10 THEN <<Digits[n + 1]>>
    ELSE str(n \div 10) \o <<Digits[(n % 10) + 1]>>

---------------------------------------------------------------------------
(* backend/utils.py                                                        *)

\* the window start with only the hour kept
get_current_15min_timestamp_hour(now) == (now \div 3600) * 3600

\* the window start with the seconds of `now` left in
get_current_15min_timestamp_seconds(now) == now - ((now \div 60) % 15) * 60

\* get_current_15min_timestamp, as a function of the clock reading `now`:
\* minute rounded down to a multiple of 15, second and microsecond zeroed
get_current_15min_timestamp(now) ==
    LET minute  == (now \div 60) % 60
        minutes == (minute \div 15) * 15
    IN  (now \div 3600) * 3600 + minutes * 60

\* the next window taken two widths ahead
get_next_15min_timestamp_two(current_15min) == current_15min + 2 * 900

\* get_next_15min_timestamp, line 32: current_15min is what the call of
\* get_current_15min_timestamp at line 30 returned
get_next_15min_timestamp(current_15min) == current_15min + 900

\* int(x) of a number whole - f with 0 < f < 1 when fraction is TRUE, of
\* whole itself otherwise: the fractional part is dropped, towards zero
int_truncated(whole, fraction) ==
    IF fraction /\ whole > 0 THEN whole - 1 ELSE whole

\* get_seconds_until_next_15min, lines 103-109: now is the clock reading of
\* line 101, current the current_timestamp the call at line 102 returned
get_seconds_until_next_15min(now, current) ==
    LET next_timestamp == current + 900
    IN  int_truncated(next_timestamp - now.second, now.microsecond > 0)

\* Python values whose type the code tests are tagged with their type
None == [type |-> "none"]

PyInt(n) == [type |-> "int", val |-> n]

PyStr(s) == [type |-> "str", val |-> s]

\* extract_timestamp_from_slug: int of the last "-" segment, None otherwise
extract_timestamp_from_slug(slug) ==
    LET parts == split(slug, "-")
    IN  IF isdigit(parts[Len(parts)])
        THEN PyInt(int(parts[Len(parts)]))
        ELSE None

\* only the family prefix "btc-updown-15m" is looked for
is_15min_interval_market_btc_only(s) ==
    startswith(lower(s), <<"b", "t", "c", "-", "u", "p", "d", "o", "w", "n", "-", "1", "5", "m">>)

\* is_15min_interval_market
is_15min_interval_market(s) ==
    \/ contains(lower(s), <<"-", "1", "5", "m", "-">>)
    \/ startswith(lower(s), <<"b", "t", "c", "-", "u", "p", "d", "o", "w", "n", "-", "1", "5", "m">>)
    \/ startswith(lower(s), <<"e", "t", "h", "-", "u", "p", "d", "o", "w", "n", "-", "1", "5", "m">>)

---------------------------------------------------------------------------
(* Raw market records of the Gamma API and what the code reads of them     *)

\* an exception leaving a call
Raised == [type |-> "raised"]

\* a raw record: the keys the resolver and the formatter read
Rec(slug, active, closed, question, tokens) ==
    [type |-> "market", slug |-> slug, active |-> active, closed |-> closed,
     condition_id |-> PyStr(<<>>), question |-> question, tokens |-> tokens]

\* mutant of is_active: no record counts as active
is_active_never(m) == FALSE

\* mutant of is_active: the `not` before closed dropped
is_active_closed(m) == m.active /\ m.closed

\* market.get("active", True) and not market.get("closed", False)
is_active(m) == m.active /\ ~m.closed

\* x[:n] of the logging f-strings: a str can be sliced, None (JSON null) cannot
Sliceable(x) == x.type = "str"

---------------------------------------------------------------------------
(* PolymarketClient._fetch_market_by_slug                                  *)

\* resp is the outcome of requests.get(GAMMA_API/markets/slug/{slug}):
\*   "404"        status 404                       -> None (line 115)
\*   "http_error" other 4xx/5xx, raise_for_status  -> None (line 138)
\*   "timeout"    timeout, connection error or a body that is not a JSON
\*                object with a str question       -> None (line 143)
\*   "ok"         status 200 with a record         -> the record, active or not
_fetch_market_by_slug(resp) ==
    IF resp.kind = "404" THEN None
    ELSE IF resp.kind = "http_error" THEN None
    ELSE IF resp.kind = "timeout" THEN None
    ELSE IF ~Sliceable(resp.body.question) THEN None
    ELSE resp.body

---------------------------------------------------------------------------
(* PolymarketClient._fetch_active_market_by_pattern                        *)

\* lines 158-163: the pattern without a trailing "-<digits>" segment
base_pattern(slug_pattern) ==
    LET parts == split(slug_pattern, "-")
    IN  IF contains(slug_pattern, <<"-">>) /\ isdigit(parts[Len(parts)])
        THEN join(SubSeq(parts, 1, Len(parts) - 1), "-")
        ELSE slug_pattern

\* what the code derives from an identifier: its kind (line 278), the pattern
\* the candidate slugs are built from (lines 158-163) and the timestamp its
\* last segment spells (extract_timestamp_from_slug)
classify(identifier) ==
    [kind |-> IF is_15min_interval_market(identifier) THEN "PERIODIC" ELSE "STATIC",
     base_pattern |-> base_pattern(identifier),
     embedded_timestamp |-> extract_timestamp_from_slug(identifier)]

\* mutant of test_slug: the timestamp appended without the separator
test_slug_unseparated(base, timestamp) == base \o str(timestamp)

\* f"{base_pattern}-{timestamp}" (lines 169 and 188)
test_slug(base, timestamp) == base \o <<"-">> \o str(timestamp)

\* mutant of test_timestamp: the clock is read again for every candidate
test_timestamp_reread(current, now, offset) == get_current_15min_timestamp(now) + offset

\* line 187: current_timestamp + offset, with current_timestamp as line 168
\* read it; the clock (now) is not read again
test_timestamp(current, now, offset) == current + offset

\* mutants of LoopOffsets: the next window tried first; the next window forgotten
LoopOffsetsNextFirst == <<900, 0 - 900, 0 - 1800, 0>>

LoopOffsetsNoNext == <<0 - 900, 0 - 1800, 0>>

\* mutant of LoopOffsets: one more window tried
LoopOffsetsTwoAhead == <<0 - 900, 0 - 1800, 0, 900, 1800>>

\* line 186: the offsets tried after the current interval
LoopOffsets == <<0 - 900, 0 - 1800, 0, 900>>

\* line 222: pattern_lower in slug_lower or slug_lower.startswith(pattern_lower)
matches_pattern(slug, base) ==
    LET slug_lower == lower(slug)
        pattern_lower == lower(base)
    IN  \/ contains(slug_lower, pattern_lower)
        \/ startswith(slug_lower, pattern_lower)

\* lines 213-232: the listing records whose slug matches, in listing order
RECURSIVE matching_markets(_, _)
matching_markets(all_markets, base) ==
    IF Len(all_markets) = 0 THEN <<>>
    ELSE LET m == Head(all_markets)
             rest == matching_markets(Tail(all_markets), base)
         IN  IF m.slug # <<>> /\ matches_pattern(m.slug, base)
             THEN <<[market |-> m, slug |-> m.slug,
                     timestamp |-> extract_timestamp_from_slug(m.slug),
                     active |-> is_active(m), closed |-> m.closed]>> \o rest
             ELSE rest

\* mutant of sort_key: a match without a timestamp sorts as the latest
sort_key_undated_latest(x) == IF x.timestamp = None THEN 2147483647 ELSE x.timestamp.val

\* line 239: the sort key, x["timestamp"] or 0
sort_key(x) == IF x.timestamp = None THEN 0 ELSE x.timestamp.val

\* mutant of insert_desc: x goes in front of the entries with an equal key
RECURSIVE insert_desc_unstable(_, _)
insert_desc_unstable(sorted, x) ==
    IF Len(sorted) = 0 THEN <<x>>
    ELSE IF sort_key(Head(sorted)) > sort_key(x)
         THEN <<Head(sorted)>> \o insert_desc_unstable(Tail(sorted), x)
         ELSE <<x>> \o sorted

\* insertion of x behind every entry whose key is not smaller
RECURSIVE insert_desc(_, _)
insert_desc(sorted, x) ==
    IF Len(sorted) = 0 THEN <<x>>
    ELSE IF sort_key(Head(sorted)) >= sort_key(x)
         THEN <<Head(sorted)>> \o insert_desc(Tail(sorted), x)
         ELSE <<x>> \o sorted

\* line 239: list.sort(key=..., reverse=True), a stable descending sort
RECURSIVE sort_desc(_)
sort_desc(seq) ==
    IF Len(seq) = 0 THEN <<>>
    ELSE insert_desc(sort_desc(SubSeq(seq, 1, Len(seq) - 1)), seq[Len(seq)])

\* mutant of active_matches: the filter on active and closed left out
active_matches_unfiltered(ranked) == ranked

\* line 242: [m for m in matching_markets if m["active"] and not m["closed"]]
RECURSIVE active_matches(_)
active_matches(ranked) ==
    IF Len(ranked) = 0 THEN <<>>
    ELSE IF Head(ranked).active /\ ~Head(ranked).closed
         THEN <<Head(ranked)>> \o active_matches(Tail(ranked))
         ELSE active_matches(Tail(ranked))

\* lines 212-253: what the pattern search returns from a listing
search_listing(all_markets, base) ==
    LET ranked == sort_desc(matching_markets(all_markets, base))
    IN  IF Len(ranked) = 0 THEN None
        ELSE IF Len(active_matches(ranked)) > 0
             THEN active_matches(ranked)[1].market
             ELSE None

\* lines 201-259: resp is the outcome of requests.get(GAMMA_API/markets, limit=500);
\* a failed request raises inside the try block and the search returns None;
\* a body that is no list and has no "data" counts as an empty listing
listing_result(resp, base) ==
    IF resp.kind # "ok" THEN None
    ELSE IF resp.body.type = "list" THEN search_listing(resp.body.items, base)
    ELSE search_listing(<<>>, base)

---------------------------------------------------------------------------
(* PolymarketClient._fetch_market_by_slug_or_condition_id                  *)

\* the identifier with its trailing numeric segment taken off
identifier_clean_stripped(identifier) == base_pattern(identifier)

\* line 274: identifier_clean = identifier.strip(), the value every lookup of
\* lines 285-316 is made with
identifier_clean(identifier) == strip(identifier)

\* mutant of is_slug: the test of the prefix dropped
is_slug_any_separator(identifier) == contains(identifier, <<"-">>)

\* line 287: "-" in identifier_clean and not identifier_clean.startswith("0x")
is_slug(identifier) ==
    /\ contains(identifier, <<"-">>)
    /\ ~startswith(identifier, <<"0", "x">>)

\* line 309: [m for m in data if m.get("active", True) and not m.get("closed", False)]
RECURSIVE active_markets(_)
active_markets(data) ==
    IF Len(data) = 0 THEN <<>>
    ELSE IF is_active(Head(data))
         THEN <<Head(data)>> \o active_markets(Tail(data))
         ELSE active_markets(Tail(data))

\* the first record of a list is taken, active or not
condition_id_result_first(resp) ==
    IF resp.kind # "ok" THEN None
    ELSE IF resp.body.type = "list"
         THEN IF Len(resp.body.items) = 0 THEN None ELSE resp.body.items[1]
         ELSE resp.body

\* lines 301-319: resp is the outcome of requests.get(GAMMA_API/markets,
\* condition_ids=identifier); an exception is swallowed (line 315), a status
\* other than 200 and an empty list fall through to return None (line 319)
condition_id_result(resp) ==
    IF resp.kind # "ok" THEN None
    ELSE IF resp.body.type = "list"
         THEN IF Len(resp.body.items) = 0 THEN None
              ELSE IF Len(active_markets(resp.body.items)) > 0
                   THEN active_markets(resp.body.items)[1]
                   ELSE resp.body.items[1]
         ELSE resp.body

---------------------------------------------------------------------------
(* PolymarketClient._format_market                                         *)

\* dict.get(key, default)
get(d, key, default) == IF key \in DOMAIN d THEN d[key] ELSE default

\* a float; val counts tenths, so that 0.5 is Float(5)
Float(tenths) == [type |-> "float", val |-> tenths]

\* a Python list, where the code tests the type of the value
PyList(items) == [type |-> "list", items |-> items]

\* the truth value of x in `if x:` and `x or y`
truthy(x) ==
    IF x.type = "str" THEN x.val # <<>>
    ELSE IF x.type = "list" THEN x.items # <<>>
    ELSE IF x.type \in {"int", "float"} THEN x.val # 0
    ELSE IF x.type = "dict" THEN x.keys # <<>>
    ELSE FALSE

\* the number the parts of a str around "." spell: digits "." digit
decimal_of(parts) ==
    IF /\ Len(parts) = 2
       /\ isdigit(parts[1])
       /\ isdigit(parts[2])
       /\ Len(parts[2]) = 1
    THEN Float(10 * int(parts[1]) + int(parts[2]))
    ELSE Raised

\* the number a str without sign spells: digits, or digits "." digit
unsigned_of(s) == IF isdigit(s) THEN PyInt(int(s)) ELSE decimal_of(split(s, "."))

\* -n, Raised kept
negated(n) == IF n = Raised THEN Raised ELSE [n EXCEPT !.val = 0 - n.val]

\* the number a str spells, with or without a leading "-"; Raised for every
\* other str
number_of(s) ==
    IF Len(s) > 1 /\ s[1] = "-" THEN negated(unsigned_of(Tail(s))) ELSE unsigned_of(s)

\* a number as a float, Raised kept
as_float(n) ==
    IF n = Raised THEN Raised
    ELSE IF n.type = "int" THEN Float(10 * n.val)
    ELSE n

\* float(x): a float is kept, an int converts, a str converts when it spells
\* a number; None and every other value raise
float(x) ==
    IF x.type = "float" THEN x
    ELSE IF x.type = "int" THEN Float(10 * x.val)
    ELSE IF x.type = "str" THEN as_float(number_of(strip(x.val)))
    ELSE Raised

\* one element of a JSON array: a string in double quotes or a number
json_value(e) ==
    IF /\ Len(e) >= 2
       /\ e[1] = "\""
       /\ e[Len(e)] = "\""
       /\ \A n \in 2..(Len(e) - 1) : e[n] # "\""
    THEN PyStr(SubSeq(e, 2, Len(e) - 1))
    ELSE number_of(e)

\* the list of the elements, Raised when one of them is no JSON value
json_list(values) ==
    IF \E n \in 1..Len(values) : values[n] = Raised THEN Raised ELSE PyList(values)

\* what stands between the brackets of a JSON array
json_array(inner) ==
    IF inner = <<>> THEN PyList(<<>>)
    ELSE json_list([n \in 1..Len(split(inner, ",")) |->
                       json_value(strip(split(inner, ",")[n]))])

json_document(t) ==
    IF Len(t) >= 2 /\ t[1] = "[" /\ t[Len(t)] = "]"
    THEN json_array(strip(SubSeq(t, 2, Len(t) - 1)))
    ELSE number_of(t)

\* json.loads(s) for the documents the records carry: a number, or an array
\* of strings and numbers with no comma inside a string; Raised for a text
\* that is no such document
json_loads(s) == json_document(strip(s))

\* every segment is a token id, the empty ones too
token_ids_of_str_all(parts) == [n \in 1..Len(parts) |-> strip(parts[n])]

\* lines 449-455: the token ids of clobTokenIds, a comma-separated str or a
\* list of str
RECURSIVE token_ids_of_str(_)
token_ids_of_str(parts) ==
    IF Len(parts) = 0 THEN <<>>
    ELSE IF strip(Head(parts)) # <<>>
         THEN <<strip(Head(parts))>> \o token_ids_of_str(Tail(parts))
         ELSE token_ids_of_str(Tail(parts))

RECURSIVE token_ids_of_list(_)
token_ids_of_list(items) ==
    IF Len(items) = 0 THEN <<>>
    ELSE IF Head(items) # <<>>
         THEN <<strip(Head(items))>> \o token_ids_of_list(Tail(items))
         ELSE token_ids_of_list(Tail(items))

token_ids_of(clob_token_ids) ==
    IF clob_token_ids.type = "str" THEN token_ids_of_str(split(clob_token_ids.val, ","))
    ELSE IF clob_token_ids.type = "list" THEN token_ids_of_list(clob_token_ids.items)
    ELSE <<>>

\* lines 468-470: what json.loads gave, or the comma-separated parts when it
\* raised
loaded_or_split(loaded, parts) ==
    IF loaded # Raised THEN loaded
    ELSE PyList([n \in 1..Len(parts) |-> PyStr(strip(parts[n]))])

\* lines 464-472 and 476-483: the outcome list of one field, [] when the
\* field is empty or neither a str nor a list
parse_outcomes(outcomes) ==
    IF ~truthy(outcomes) THEN PyList(<<>>)
    ELSE IF outcomes.type = "str"
         THEN loaded_or_split(json_loads(outcomes.val), split(outcomes.val, ","))
    ELSE IF outcomes.type = "list" THEN outcomes
    ELSE PyList(<<>>)

\* the first of the two lists that is not empty, or the default
first_list(from_outcomes, from_short, default) ==
    IF truthy(from_outcomes) THEN from_outcomes
    ELSE IF truthy(from_short) THEN from_short
    ELSE default

\* no default list: every outcome gets its positional label
outcome_list_of_unlabelled(market) ==
    first_list(parse_outcomes(get(market, "outcomes", PyStr(<<>>))),
               parse_outcomes(get(market, "shortOutcomes", PyStr(<<>>))),
               PyList(<<>>))

\* lines 457-487: outcomes, then shortOutcomes, then ["Yes", "No"]
outcome_list_of(market) ==
    first_list(parse_outcomes(get(market, "outcomes", PyStr(<<>>))),
               parse_outcomes(get(market, "shortOutcomes", PyStr(<<>>))),
               PyList(<<PyStr(<<"Y", "e", "s">>), PyStr(<<"N", "o">>)>>))

\* f"Outcome {n}"
outcome_label(n) == <<"O", "u", "t", "c", "o", "m", "e", " ">> \o str(n)

\* line 491: outcome_list[i] if i < len(outcome_list) else f"Outcome {i+1}",
\* for the token number n (counted from 1)
outcome_of(outcome_list, n) ==
    IF n <= Len(outcome_list.items) THEN outcome_list.items[n]
    ELSE PyStr(outcome_label(n))

\* the value of key in a dict of prices, Raised when the key is absent
price_by_label(prices, outcome) ==
    IF outcome.type = "str" /\ \E k \in 1..Len(prices.keys) : prices.keys[k] = outcome.val
    THEN prices.vals[CHOOSE k \in 1..Len(prices.keys) : prices.keys[k] = outcome.val]
    ELSE Raised

\* line 498: json.loads(outcome_prices) if isinstance(outcome_prices, str)
\* else outcome_prices
loaded_prices(outcome_prices) ==
    IF outcome_prices.type = "str" THEN json_loads(outcome_prices.val) ELSE outcome_prices

\* lines 499-502: the price the loaded prices give token number n, Raised
\* when they give none or an exception was raised
price_in(prices, outcome, n) ==
    IF prices = Raised THEN Raised
    ELSE IF prices.type = "list"
         THEN IF n <= Len(prices.items) THEN float(prices.items[n]) ELSE Raised
    ELSE IF prices.type = "dict" THEN float(price_by_label(prices, outcome))
    ELSE Raised

\* lines 494-504: 0.5 unless outcomePrices is there and gives a price, every
\* exception swallowed
price_or_default(outcome_prices, found) ==
    IF truthy(outcome_prices) /\ found # Raised THEN found ELSE Float(5)

\* lines 493-505: the price of token number n
price_of(market, outcome, n) ==
    price_or_default(get(market, "outcomePrices", PyStr(<<>>)),
                     price_in(loaded_prices(get(market, "outcomePrices", PyStr(<<>>))),
                              outcome, n))

\* a str outcome as the output carries it
plain(value) == IF value.type = "str" THEN value.val ELSE value

\* lines 506-511
token_of_id(market, token_id, outcome, n) ==
    [token_id |-> token_id,
     outcome |-> plain(outcome),
     price |-> price_of(market, outcome, n),
     winner |-> FALSE]

\* lines 490-511: one token per token id; len() of an outcome list that
\* json.loads made a number raises (line 491)
tokens_of_ids(market, token_ids, outcome_list) ==
    IF Len(token_ids) > 0 /\ outcome_list.type # "list" THEN Raised
    ELSE PyList([n \in 1..Len(token_ids) |->
                    token_of_id(market, token_ids[n], outcome_of(outcome_list, n), n)])

\* lines 446-511: the tokens of a record with a non-empty clobTokenIds
tokens_from_ids(market) ==
    tokens_of_ids(market,
                  token_ids_of(get(market, "clobTokenIds", PyStr(<<>>))),
                  outcome_list_of(market))

\* isinstance(token, dict): the plain token ids of a tokens array are str
is_dict(token) == "type" \notin DOMAIN token

\* lines 517-522: the token of a token object; float() of line 520 is not
\* guarded
token_of_dict(token, price) ==
    IF price = Raised THEN Raised
    ELSE [token_id |-> get(token, "token_id", <<>>),
          outcome |-> get(token, "outcome", <<>>),
          price |-> price,
          winner |-> get(token, "winner", FALSE)]

\* lines 515-530: the token an element of the array gives when `count`
\* tokens are there; None for an element that is neither a dict nor a str
token_of_element(token, count) ==
    IF is_dict(token) THEN token_of_dict(token, float(get(token, "price", Float(5))))
    ELSE IF token.type = "str"
         THEN [token_id |-> token.val,
               outcome |-> outcome_label(count + 1),
               price |-> Float(5),
               winner |-> FALSE]
         ELSE None

\* lines 514-530: the tokens of a record with a tokens array, built one by
\* one
RECURSIVE tokens_from_array(_, _)
tokens_after(array, tokens, token) ==
    IF token = Raised THEN Raised
    ELSE IF token = None THEN tokens_from_array(Tail(array), tokens)
    ELSE tokens_from_array(Tail(array), Append(tokens, token))

tokens_from_array(array, tokens) ==
    IF Len(array) = 0 THEN PyList(tokens)
    ELSE tokens_after(array, tokens, token_of_element(Head(array), Len(tokens)))

\* the tokens array first, clobTokenIds only without it
tokens_of_array_first(market) ==
    IF get(market, "tokens", <<>>) # <<>>
    THEN tokens_from_array(get(market, "tokens", <<>>), <<>>)
    ELSE IF truthy(get(market, "clobTokenIds", PyStr(<<>>))) THEN tokens_from_ids(market)
    ELSE PyList(<<>>)

\* lines 446-530: clobTokenIds first, the tokens array only without it; the
\* list of tokens, or Raised
tokens_of(market) ==
    IF truthy(get(market, "clobTokenIds", PyStr(<<>>))) THEN tokens_from_ids(market)
    ELSE IF get(market, "tokens", <<>>) # <<>>
         THEN tokens_from_array(get(market, "tokens", <<>>), <<>>)
         ELSE PyList(<<>>)

\* x or y for two str
or_else(x, y) == IF x # <<>> THEN x ELSE y

\* lines 537-548: the canonical market with these tokens; Raised when the
\* tokens raised
formatted_with(m, tokens) ==
    IF tokens = Raised THEN Raised
    ELSE [type |-> "formatted",
          condition_id |-> get(m, "condition_id", PyStr(<<>>)),
          question |-> get(m, "question",
                           PyStr(<<"U", "n", "k", "n", "o", "w", "n", " ",
                                   "M", "a", "r", "k", "e", "t">>)),
          description |-> get(m, "description", <<>>),
          tokens |-> tokens.items,
          active |-> get(m, "active", TRUE),
          closed |-> get(m, "closed", FALSE),
          end_date |-> or_else(get(m, "end_date_iso", <<>>), get(m, "endDate", <<>>)),
          slug |-> or_else(get(m, "slug", <<>>), get(m, "eventSlug", <<>>)),
          eventSlug |-> or_else(get(m, "eventSlug", <<>>), get(m, "slug", <<>>)),
          original_pattern |-> None]

\* lines 436-550; Raised when the call raises
_format_market(m) == formatted_with(m, tokens_of(m))

---------------------------------------------------------------------------
(* PolymarketClient.get_featured_markets                                   *)

\* lines 368-399: what one identifier and the market found for it leave in
\* `featured`.  An exception inside the try block (a question that cannot be
\* sliced in the warning of line 373, _format_market raising) is caught at
\* line 394 and leaves the list as it is; the info of line 389 is evaluated
\* after the append, so its exception leaves the market in the list.
collect(feat, condition_id, m) ==
    IF m = None THEN feat
    ELSE IF ~is_active(m) /\ ~Sliceable(m.question) THEN feat
    ELSE IF ~is_active(m) /\ is_15min_interval_market(condition_id) THEN feat
    ELSE LET formatted == _format_market(m)
         IN  IF formatted = Raised THEN feat
             ELSE IF formatted.active /\ ~formatted.closed
                  THEN Append(feat,
                         IF is_15min_interval_market(condition_id)
                         THEN [formatted EXCEPT !.original_pattern = PyStr(condition_id)]
                         ELSE formatted)
                  ELSE feat

\* lines 401-411 and 430-434: the final report slices condition_id and
\* question of every market; a value that cannot be sliced raises into the
\* outer handler, which returns []
report(feat) ==
    IF Len(feat) = 0 THEN <<>>
    ELSE IF \E n \in 1..Len(feat) :
                ~Sliceable(feat[n].condition_id) \/ ~Sliceable(feat[n].question)
         THEN <<>>
         ELSE feat

\* line 333: the default of the limit parameter
limit == 4

\* SubSeq for markets_data[:limit]
first_n(seq, n) == SubSeq(seq, 1, IF Len(seq) < n THEN Len(seq) ELSE n)

\* lines 419-425: every record that formats is appended, the others skipped
RECURSIVE format_all(_)
format_all(markets_data) ==
    IF Len(markets_data) = 0 THEN <<>>
    ELSE LET formatted == _format_market(Head(markets_data))
         IN  IF formatted = Raised THEN format_all(Tail(markets_data))
             ELSE <<formatted>> \o format_all(Tail(markets_data))

---------------------------------------------------------------------------
(* The environment: configured identifiers, the clock, the Gamma API       *)

\* "btc-updown-15m": a periodic family without a timestamp
BtcUpdown == <<"b", "t", "c", "-", "u", "p", "d", "o", "w", "n", "-", "1", "5", "m">>

\* "btc-updown-15m-900": the same family with the timestamp of a past window
BtcUpdownStale == BtcUpdown \o <<"-", "9", "0", "0">>

\* "x-7": the slug of a static market, ending in a numeric segment
StaticSlug == <<"x", "-", "7">>

\* "0xab": a condition id
ConditionId == <<"0", "x", "a", "b">>

\* "0x-7": a separator behind the prefix of a condition id
HexDashed == <<"0", "x", "-", "7">>

\* "q7": no separator and no prefix
Plain == <<"q", "7">>

Identifiers == {BtcUpdown, BtcUpdownStale, StaticSlug, ConditionId, HexDashed, Plain}

BatchIdentifiers == {BtcUpdown, ConditionId}

\* longest identifier list of a batch run
MaxIds == 3

\* seconds the clock may advance during a run
MaxTicks == 1

\* most records in a bulk listing, in a condition-id response
MaxListing == 2

MaxCond == 2

\* most records in the simplified-markets response
MaxPopular == 5

\* the run starts one second before the window [2700, 3600) opens
ClockStart == 3 * 900 - 1

Question == PyStr(<<"Q">>)

Token(price) ==
    [token_id |-> <<"1">>, outcome |-> <<"U", "p">>, price |-> price, winner |-> FALSE]

GoodTokens == <<Token([type |-> "float", val |-> 1])>>

\* a price that float() rejects
BadTokens == <<Token(PyStr(<<"n", "a">>))>>

\* sequences over S of length at most n
SeqUpTo(S, n) == UNION {[1..k -> S] : k \in 0..n}

\* (active, closed) of the records the service returns
Flags == {<<TRUE, FALSE>>, <<TRUE, TRUE>>, <<FALSE, FALSE>>}

\* outcomes of GET /markets/slug/{slug}
SlugResponses(slug) ==
    {[kind |-> k, body |-> None] : k \in {"404", "http_error", "timeout"}}
    \cup {[kind |-> "ok", body |-> Rec(slug, f[1], f[2], Question, GoodTokens)] : f \in Flags}

\* records of the bulk listing, for a search of pattern base: two windows the
\* candidate slugs do not name, open or closed, well-formed or not, and a
\* record of another family
ListingRecords(base) ==
    {Rec(test_slug(base, 7), TRUE, FALSE, Question, GoodTokens),
     Rec(test_slug(base, 9), TRUE, TRUE, Question, GoodTokens),
     Rec(test_slug(base, 7), TRUE, FALSE, None, GoodTokens),
     Rec(<<"e", "t", "h", "-", "9">>, TRUE, FALSE, Question, GoodTokens)}

\* outcomes of GET /markets?limit=500
ListingResponses(base) ==
    {[kind |-> k, body |-> None] : k \in {"http_error", "timeout"}}
    \cup {[kind |-> "ok", body |-> [type |-> "list", items |-> b]] :
             b \in SeqUpTo(ListingRecords(base), MaxListing)}

\* records of a condition-id response
MarketSlug == <<"m", "k", "t">>

ConditionRecords ==
    {Rec(MarketSlug, TRUE, FALSE, Question, GoodTokens),
     Rec(MarketSlug, TRUE, TRUE, Question, GoodTokens),
     Rec(MarketSlug, TRUE, FALSE, Question, BadTokens)}

\* outcomes of GET /markets?condition_ids={identifier}: a list or one object
ConditionResponses ==
    {[kind |-> k, body |-> None] : k \in {"http_error", "timeout"}}
    \cup {[kind |-> "ok", body |-> [type |-> "list", items |-> b]] :
             b \in SeqUpTo(ConditionRecords, MaxCond)}
    \cup {[kind |-> "ok", body |-> r] : r \in ConditionRecords}

\* outcomes of read_client.get_simplified_markets()
PopularRecords ==
    {Rec(MarketSlug, TRUE, FALSE, Question, GoodTokens),
     Rec(MarketSlug, TRUE, TRUE, Question, GoodTokens),
     Rec(MarketSlug, TRUE, FALSE, Question, BadTokens)}

PopularResponses ==
    {[kind |-> k, data |-> <<>>] : k \in {"raise", "empty"}}
    \cup {[kind |-> "ok", data |-> b] : b \in SeqUpTo(PopularRecords, MaxPopular)}

\* "btc-updown-15m-3600": the same family with the timestamp of a window that
\* has not begun
BtcUpdownLater == BtcUpdown \o <<"-", "3", "6", "0", "0">>

\* the slugs a resolution of the family can fetch at ClockStart
PairSlugs ==
    {test_slug(BtcUpdown, get_current_15min_timestamp(ClockStart) + d) :
        d \in {0 - 1800, 0 - 900, 0, 900, 1800}}
    \cup {BtcUpdown}

\* one state of the Gamma API: what it answers to the fetch of each slug, to
\* the bulk listing and to the condition-id lookup, whoever asks and however
\* often
Services ==
    {[type |-> "service", slugs |-> by_slug, listing |-> l, condition |-> c] :
        by_slug \in {f \in [PairSlugs -> {"404", "ok"}] : TRUE},
        l \in {[kind |-> "timeout", body |-> None],
               [kind |-> "ok", body |-> [type |-> "list", items |-> <<>>]],
               [kind |-> "ok", body |-> [type |-> "list", items |->
                   <<Rec(test_slug(BtcUpdown, 7), TRUE, FALSE, Question, GoodTokens)>>]]},
        c \in {[kind |-> "http_error", body |-> None],
               [kind |-> "ok", body |-> [type |-> "list", items |-> <<>>]]}}

\* the answer of the service, when its state is held fixed in arg, and every
\* outcome of the request otherwise
SlugAnswers(slug) ==
    IF arg.type = "service"
    THEN {IF arg.slugs[slug] = "ok"
          THEN [kind |-> "ok", body |-> Rec(slug, TRUE, FALSE, Question, GoodTokens)]
          ELSE [kind |-> "404", body |-> None]}
    ELSE SlugResponses(slug)

ListingAnswers(base) == IF arg.type = "service" THEN {arg.listing} ELSE ListingResponses(base)

ConditionAnswers == IF arg.type = "service" THEN {arg.condition} ELSE ConditionResponses

PopularAnswers == IF arg.type = "service" THEN {arg.popular} ELSE PopularResponses

\* what the history keeps of a response: "404", "error" (an error status, a
\* timeout or any other exception), "active" or "closed" for a record, "ok"
\* for a list; of a bulk listing in which the search found a market it keeps
\* "active"
Class(resp) ==
    IF resp.kind = "404" THEN "404"
    ELSE IF resp.kind # "ok" THEN "error"
    ELSE IF resp.body.type = "market"
         THEN IF resp.body.active /\ ~resp.body.closed THEN "active" ELSE "closed"
         ELSE "ok"

\* an entry of the history: the endpoint, the slug or identifier sent, the
\* position of the cascade that sent it, the class of the response
Entry(req, slug, resp) == [req |-> req, slug |-> slug, at |-> pc, resp |-> resp]

\* an entry that also keeps the body of the response; the history keeps it
\* for the condition-id lookup of a static identifier
EntryWithData(req, slug, resp) ==
    [req |-> req, slug |-> slug, at |-> pc, resp |-> Class(resp), data |-> resp.body]

Logged(e) == IF observe THEN Append(log, e) ELSE log

NotReturned == [type |-> "not returned"]

Returned(list) == [type |-> "returned", value |-> list]

---------------------------------------------------------------------------
(* Initial states                                                          *)

InitCommon ==
    /\ clock = ClockStart
    /\ idx = 0
    /\ featured = <<>>
    /\ ret = NotReturned
    /\ current_timestamp = 0
    /\ step = 0
    /\ resolved = <<>>
    /\ log = <<>>

\* one call of get_featured_markets with at most one configured identifier,
\* every external request recorded
Init ==
    /\ featured_conditions \in SeqUpTo(Identifiers, 1)
    /\ observe = TRUE
    /\ pc = "entry"
    /\ arg = None
    /\ result = None
    /\ InitCommon

---------------------------------------------------------------------------
(* Actions                                                                 *)

cid == featured_conditions[idx]

\* the resolver returns m for the current identifier: lines 368-399 run, and
\* the loop moves on; behind the last identifier the results are reported
\* and returned (lines 401-411)
Finish(m) ==
    /\ resolved' = Append(resolved, m)
    /\ featured' = collect(featured, cid, m)
    /\ idx' = idx + 1
    /\ IF idx < Len(featured_conditions)
       THEN pc' = "next" /\ ret' = ret
       ELSE pc' = "done" /\ ret' = Returned(report(featured'))

\* the listing missed and the identifier goes straight to the condition-id
\* lookup
AfterPatternNoSlug(identifier) == "condition"

\* where the cascade goes when the pattern search found nothing, and where it
\* starts for a static identifier (lines 285-299)
AfterPattern(identifier) == IF is_slug(identifier) THEN "slug" ELSE "condition"

\* the clock advances while the candidate slugs are being probed
Tick ==
    /\ pc = "recent"
    /\ clock < ClockStart + MaxTicks
    /\ clock' = clock + 1
    /\ UNCHANGED <<featured_conditions, pc, idx, featured, ret,
                   current_timestamp, step, resolved, log, observe, arg, result>>

\* lines 341-351, 413-415
Enter ==
    /\ pc = "entry"
    /\ featured' = <<>>
    /\ IF Len(featured_conditions) > 0
       THEN pc' = "next" /\ idx' = 1
       ELSE pc' = "popular" /\ idx' = idx
    /\ UNCHANGED <<featured_conditions, clock, ret, current_timestamp, step,
                   resolved, log, observe, arg, result>>

\* lines 353-366 and 274-287: the next identifier enters the cascade, the
\* locals of the resolver are fresh
NextIdentifier ==
    /\ pc = "next"
    /\ idx <= Len(featured_conditions)
    /\ pc' = IF is_15min_interval_market(cid) THEN "current" ELSE AfterPattern(cid)
    /\ log' = <<>>
    /\ step' = 0
    /\ current_timestamp' = 0
    /\ UNCHANGED <<featured_conditions, clock, idx, featured, ret,
                   resolved, observe, arg, result>>

\* lines 167-180: the clock is read and the slug of the current interval tried
TryCurrentInterval ==
    /\ pc = "current"
    /\ LET ts == get_current_15min_timestamp(clock)
           current_slug == test_slug(base_pattern(cid), ts)
       IN  \E resp \in SlugAnswers(current_slug) :
              LET m == _fetch_market_by_slug(resp)
              IN  /\ current_timestamp' = ts
                  /\ log' = Logged(Entry("slug", current_slug, Class(resp)))
                  /\ IF m # None /\ is_active(m)
                     THEN Finish(m) /\ step' = step
                     ELSE /\ pc' = "recent"
                          /\ step' = 1
                          /\ UNCHANGED <<featured, idx, resolved, ret>>
    /\ UNCHANGED <<featured_conditions, clock, observe, arg, result>>

\* lines 186-196: one iteration of the loop over the offsets
TryRecentInterval ==
    /\ pc = "recent"
    /\ LET slug == test_slug(base_pattern(cid),
                            test_timestamp(current_timestamp, clock, LoopOffsets[step]))
       IN  \E resp \in SlugAnswers(slug) :
              LET m == _fetch_market_by_slug(resp)
              IN  /\ log' = Logged(Entry("slug", slug, Class(resp)))
                  /\ IF m # None /\ is_active(m)
                     THEN Finish(m) /\ step' = step
                     ELSE /\ IF step < Len(LoopOffsets)
                             THEN pc' = "recent" /\ step' = step + 1
                             ELSE pc' = "listing" /\ step' = step
                          /\ UNCHANGED <<featured, idx, resolved, ret>>
    /\ UNCHANGED <<featured_conditions, clock, current_timestamp, observe, arg, result>>

\* lines 198-259 and 281-283: the bulk listing and the search in it
SearchAllMarkets ==
    /\ pc = "listing"
    /\ \E outcome \in {[class |-> IF listing_result(resp, base_pattern(cid)) = None
                                    THEN Class(resp)
                                    ELSE "active",
                          market |-> listing_result(resp, base_pattern(cid))] :
                            resp \in ListingAnswers(base_pattern(cid))} :
          LET m == outcome.market
          IN  /\ log' = Logged(Entry("listing", <<>>, outcome.class))
              /\ IF m # None
                 THEN Finish(m)
                 ELSE /\ pc' = AfterPattern(cid)
                      /\ UNCHANGED <<featured, idx, resolved, ret>>
    /\ UNCHANGED <<featured_conditions, clock, current_timestamp, step, observe, arg, result>>

\* lines 291-296: the identifier itself is fetched as a slug
DirectSlugLookup ==
    /\ pc = "slug"
    /\ \E resp \in SlugAnswers(identifier_clean(cid)) :
          LET m == _fetch_market_by_slug(resp)
          IN  /\ log' = Logged(Entry("slug", identifier_clean(cid), Class(resp)))
              /\ IF m # None /\ is_active(m)
                 THEN Finish(m)
                 ELSE IF m = None \/ ~m.active \/ m.closed
                      THEN /\ pc' = "condition"
                           /\ UNCHANGED <<featured, idx, resolved, ret>>
                      ELSE Finish(None)
    /\ UNCHANGED <<featured_conditions, clock, current_timestamp, step, observe, arg, result>>

\* lines 298-319: the condition-id lookup, reached with no active market
ConditionIdLookup ==
    /\ pc = "condition"
    /\ \E outcome \in {[entry |-> IF is_15min_interval_market(cid)
                                    THEN Entry("condition_ids", identifier_clean(cid), Class(resp))
                                    ELSE EntryWithData("condition_ids", identifier_clean(cid), resp),
                          market |-> condition_id_result(resp)] :
                            resp \in ConditionAnswers} :
          /\ log' = Logged(outcome.entry)
          /\ Finish(outcome.market)
    /\ UNCHANGED <<featured_conditions, clock, current_timestamp, step, observe, arg, result>>

\* lines 413-428: no identifier is configured
PopularMarkets ==
    /\ pc = "popular"
    /\ \E resp \in PopularAnswers :
          /\ featured' = IF resp.kind = "ok"
                         THEN format_all(first_n(resp.data, limit))
                         ELSE <<>>
          /\ ret' = Returned(featured')
          /\ log' = Logged(Entry("simplified_markets", <<>>, resp.kind))
    /\ pc' = "done"
    /\ UNCHANGED <<featured_conditions, clock, idx, current_timestamp, step,
                   resolved, observe, arg, result>>

\* one call of get_featured_markets over a list of identifiers; the history
\* of requests is not recorded
InitBatch ==
    /\ featured_conditions \in SeqUpTo(BatchIdentifiers, MaxIds)
    /\ observe = FALSE
    /\ pc = "entry"
    /\ arg = None
    /\ result = None
    /\ InitCommon

\* slugs of a listing under search, each with the timestamp its last segment
\* spells (0 when it spells none) and whether it belongs to "btc-updown-15m"
SearchSlugs ==
    {[slug |-> BtcUpdown \o <<"-", "1", "0", "0">>, ts |-> 100, match |-> TRUE],
     [slug |-> BtcUpdown \o <<"-", "2", "0", "0">>, ts |-> 200, match |-> TRUE],
     [slug |-> BtcUpdown \o <<"-", "3", "0", "0">>, ts |-> 300, match |-> TRUE],
     [slug |-> <<"B", "T", "C">> \o SubSeq(BtcUpdown, 4, 14) \o <<"-", "2", "0", "0">>,
      ts |-> 200, match |-> TRUE],
     [slug |-> BtcUpdown, ts |-> 0, match |-> TRUE],
     [slug |-> <<"e", "t", "h", "-", "3", "0", "0">>, ts |-> 300, match |-> FALSE]}

\* most records in a listing under search
MaxSearch == 3

\* every window of the family open, closed or inactive; the record without a
\* timestamp open or closed; the record of the other family open
SearchRecords ==
    {[slug |-> e.slug, ts |-> e.ts, match |-> e.match, active |-> f[1], closed |-> f[2]] :
        e \in {x \in SearchSlugs : x.match /\ x.ts > 0}, f \in Flags}
    \cup {[slug |-> e.slug, ts |-> e.ts, match |-> e.match, active |-> TRUE, closed |-> c] :
        e \in {x \in SearchSlugs : x.match /\ x.ts = 0}, c \in BOOLEAN}
    \cup {[slug |-> e.slug, ts |-> e.ts, match |-> e.match, active |-> TRUE, closed |-> FALSE] :
        e \in {x \in SearchSlugs : ~x.match}}

\* the listing the Gamma API returns for the records of arg
Listing(records) ==
    [n \in 1..Len(records) |->
        Rec(records[n].slug, records[n].active, records[n].closed, Question, GoodTokens)]

\* the search of lines 212-253 applied to a listing on its own
InitSearch ==
    /\ arg \in SeqUpTo(SearchRecords, MaxSearch)
    /\ result = None
    /\ pc = "search"
    /\ featured_conditions = <<>>
    /\ observe = FALSE
    /\ InitCommon

\* lines 212-253: the ranking (line 239) and the market returned
SearchListing ==
    /\ pc = "search"
    /\ result' = [ranked |-> sort_desc(matching_markets(Listing(arg), BtcUpdown)),
                  best |-> search_listing(Listing(arg), BtcUpdown)]
    /\ pc' = "searched"
    /\ UNCHANGED <<featured_conditions, clock, idx, featured, ret,
                   current_timestamp, step, resolved, log, observe, arg>>

NextSearch == SearchListing

---------------------------------------------------------------------------
(* Calls of single functions (specification SpecCalls)                     *)

\* the latest instant, in seconds of Unix time, at which a call starts
MaxNow == 3700

\* the microsecond a clock reading may carry
Microseconds == {0, 500000}

\* the responses of two calls of _fetch_market_by_slug
FetchCalls ==
    {[fn |-> "_fetch_market_by_slug", resps |-> <<r1, r2>>] :
        r1 \in SlugResponses(StaticSlug), r2 \in SlugResponses(StaticSlug)}

\* "btc-updown-15m-1761921000"
BtcUpdownDated == BtcUpdown \o <<"-", "1", "7", "6", "1", "9", "2", "1", "0", "0", "0">>

\* "0xabc123"
HexId == <<"0", "x", "a", "b", "c", "1", "2", "3">>

\* "sol-updown-15m": a family the code does not name
SolUpdown == <<"s", "o", "l">> \o SubSeq(BtcUpdown, 4, 14)

\* "ETH-UPDOWN-15M"
EthUpdownUpper ==
    <<"E", "T", "H", "-", "U", "P", "D", "O", "W", "N", "-", "1", "5", "M">>

\* the identifiers classified
ClassifyIdentifiers ==
    {BtcUpdownDated, HexId, BtcUpdown, BtcUpdownStale, StaticSlug, ConditionId,
     SolUpdown, SolUpdown \o <<"-", "9", "0", "0">>,
     EthUpdownUpper, EthUpdownUpper \o <<"-", "9", "0", "0">>,
     <<"x", "-", "1", "5", "m">>, <<"x", "-", "1", "5", "M", "-", "y">>,
     <<"1", "5", "m", "-", "7">>, <<"a", "b", "c">>, <<"9", "0", "0">>}

ClassifyCalls == {[fn |-> "classify", identifier |-> x] : x \in ClassifyIdentifiers}

\* most tokens in the tokens array of a record under normalization
MaxTokens == 2

\* a token with a price float() accepts, one with a price it rejects
FormatTokens ==
    {Token([type |-> "float", val |-> 1]),
     [Token(PyStr(<<"n", "a">>)) EXCEPT !.token_id = <<"2">>]}

\* raw records that carry a tokens array
FormatCalls ==
    {[fn |-> "_format_market", market |-> Rec(MarketSlug, f[1], f[2], Question, tokens)] :
        f \in Flags, tokens \in SeqUpTo(FormatTokens, MaxTokens)}

\* no field at all
NoField == [k \in {} |-> k]

\* the clobTokenIds field of a raw record: absent, empty, a comma-separated
\* str (with blanks and an empty segment) or a list
ClobTokenIds ==
    {NoField,
     "clobTokenIds" :> PyStr(<<>>),
     "clobTokenIds" :> PyStr(<<"1", ",", "2">>),
     "clobTokenIds" :> PyStr(<<" ", "1", " ", ",", ",", "2">>),
     "clobTokenIds" :> PyStr(<<"7">>),
     "clobTokenIds" :> PyList(<<<<"1">>, <<"2", " ">>>>)}

\* the outcomes field: absent, a JSON array, a comma-separated str, a JSON
\* number, a list
Outcomes ==
    {NoField,
     "outcomes" :> PyStr(<<"[", "\"", "U", "p", "\"", ",", "\"", "D", "o", "w", "n", "\"", "]">>),
     "outcomes" :> PyStr(<<"U", "p", ",", " ", "D", "o", "w", "n">>),
     "outcomes" :> PyStr(<<"5">>),
     "outcomes" :> PyList(<<PyStr(<<"U", "p">>)>>)}

ShortOutcomes ==
    {NoField,
     "shortOutcomes" :> PyStr(<<"U", ",", "D">>)}

\* the outcomePrices field: absent, a JSON array of strings, a JSON array of
\* numbers, a text that is no JSON, a mapping by outcome label
OutcomePrices ==
    {NoField,
     "outcomePrices" :> PyStr(<<"[", "\"", "0", ".", "5", "\"", ",", "\"", "1", ".", "5", "\"", "]">>),
     "outcomePrices" :> PyStr(<<"[", "0", ".", "4", ",", " ", "-", "0", ".", "2", "]">>),
     "outcomePrices" :> PyStr(<<"n", "a">>),
     "outcomePrices" :> [type |-> "dict", keys |-> <<<<"U", "p">>>>, vals |-> <<PyStr(<<"0", ".", "3">>)>>]}

\* the tokens field: absent, token objects, plain token ids
TokenArrays ==
    {NoField,
     "tokens" :> <<[Token(Float(15)) EXCEPT !.token_id = <<"8">>, !.winner = TRUE],
                   [token_id |-> <<"9">>]>>,
     "tokens" :> <<PyStr(<<"8">>), PyStr(<<"9">>)>>}

\* the end date under each of the two names the service uses
EndDates ==
    {NoField,
     "end_date_iso" :> <<"2", "0", "2", "5">>,
     "endDate" :> <<"2", "0", "2", "6">>}

\* raw records of both shapes, partially populated
RawRecords ==
    {[type |-> "market", question |-> Question, slug |-> MarketSlug] @@ c @@ o @@ s @@ p @@ t @@ e :
        c \in ClobTokenIds, o \in Outcomes, s \in ShortOutcomes,
        p \in OutcomePrices, t \in TokenArrays, e \in EndDates}

RawCalls == {[fn |-> "_format_market", market |-> m] : m \in RawRecords}

\* canonical markets, as the formatter makes them from the records that
\* carry a tokens array, handed to the formatter again
CanonicalCalls ==
    {[fn |-> "_format_market", market |-> _format_market(m)] :
        m \in {r \in RawRecords : /\ "clobTokenIds" \notin DOMAIN r
                                  /\ "tokens" \in DOMAIN r
                                  /\ _format_market(r) # Raised}}

\* base patterns: of a family, with a separator, without one, ending in a
\* numeric segment, empty
BasePatterns == {BtcUpdown, SolUpdown, EthUpdownUpper, StaticSlug, BtcUpdownStale, Plain, <<>>}

\* window starts, and timestamps that are none
Windows == {0 - 900, 0, 7, 900, 1800, 3600, 1761921000}

\* the candidate slug of a base pattern and a window start is formed and
\* taken apart again
CandidateCalls ==
    {[fn |-> "test_slug", base |-> b, window |-> w] : b \in BasePatterns, w \in Windows}

CallInputs ==
    FetchCalls \cup ClassifyCalls \cup FormatCalls \cup RawCalls \cup CanonicalCalls
        \cup CandidateCalls

\* a call of a function of utils.py at any instant up to MaxNow, or a call of
\* a function of the client with one of its inputs
InitCalls ==
    /\ \/ clock \in 0..MaxNow /\ pc = "clock" /\ arg = None
       \/ clock = ClockStart /\ pc = "call" /\ arg \in CallInputs
    /\ result = None
    /\ featured_conditions = <<>>
    /\ observe = FALSE
    /\ idx = 0
    /\ featured = <<>>
    /\ ret = NotReturned
    /\ current_timestamp = 0
    /\ step = 0
    /\ resolved = <<>>
    /\ log = <<>>

\* the clock advances between two readings of one call
ClockAdvances ==
    /\ pc \in {"next", "seconds"}
    /\ clock < arg.now.second + MaxTicks
    /\ clock' = clock + 1
    /\ UNCHANGED <<featured_conditions, pc, idx, featured, ret,
                   current_timestamp, step, resolved, log, observe, arg, result>>

\* utils.py lines 16-20; result.now is the clock reading of line 16
GetCurrent ==
    /\ pc = "clock"
    /\ result' = [fn |-> "get_current_15min_timestamp", now |-> clock,
                  value |-> get_current_15min_timestamp(clock)]
    /\ pc' = "returned"
    /\ UNCHANGED <<featured_conditions, clock, idx, featured, ret,
                   current_timestamp, step, resolved, log, observe, arg>>

\* utils.py line 29: the clock is read into `now`, which nothing uses
GetNextReadsNow ==
    /\ pc = "clock"
    /\ \E m \in Microseconds :
          arg' = [fn |-> "get_next_15min_timestamp",
                  now |-> [second |-> clock, microsecond |-> m]]
    /\ pc' = "next"
    /\ UNCHANGED <<featured_conditions, clock, idx, featured, ret,
                   current_timestamp, step, resolved, log, observe, result>>

\* utils.py lines 30-32; result.now is the clock reading made inside
\* get_current_15min_timestamp
GetNext ==
    /\ pc = "next"
    /\ result' = [fn |-> "get_next_15min_timestamp", now |-> clock,
                  value |-> get_next_15min_timestamp(get_current_15min_timestamp(clock))]
    /\ pc' = "returned"
    /\ UNCHANGED <<featured_conditions, clock, idx, featured, ret,
                   current_timestamp, step, resolved, log, observe, arg>>

\* utils.py line 101: the clock is read into `now`
GetSecondsReadsNow ==
    /\ pc = "clock"
    /\ \E m \in Microseconds :
          arg' = [fn |-> "get_seconds_until_next_15min",
                  now |-> [second |-> clock, microsecond |-> m]]
    /\ pc' = "seconds"
    /\ UNCHANGED <<featured_conditions, clock, idx, featured, ret,
                   current_timestamp, step, resolved, log, observe, result>>

\* utils.py lines 102-109: the clock is read again inside
\* get_current_15min_timestamp
GetSeconds ==
    /\ pc = "seconds"
    /\ current_timestamp' = get_current_15min_timestamp(clock)
    /\ result' = [fn |-> "get_seconds_until_next_15min", now |-> clock,
                  value |-> get_seconds_until_next_15min(arg.now, current_timestamp')]
    /\ pc' = "returned"
    /\ UNCHANGED <<featured_conditions, clock, idx, featured, ret,
                   step, resolved, log, observe, arg>>

\* the clock advances between the clock readings of the next-refresh
\* endpoint
RefreshClockAdvances ==
    /\ pc \in {"refresh_next", "refresh_seconds", "refresh_respond"}
    /\ clock < arg.started + MaxTicks
    /\ clock' = clock + 1
    /\ UNCHANGED <<featured_conditions, pc, idx, featured, ret,
                   current_timestamp, step, resolved, log, observe, arg, result>>

\* app.py line 207: get_current_15min_timestamp() reads the clock
RefreshCurrent ==
    /\ pc = "clock"
    /\ arg' = [fn |-> "get_next_refresh_time", started |-> clock,
               current_timestamp |-> get_current_15min_timestamp(clock)]
    /\ pc' = "refresh_next"
    /\ UNCHANGED <<featured_conditions, clock, idx, featured, ret,
                   current_timestamp, step, resolved, log, observe, result>>

\* app.py line 208: get_next_15min_timestamp() reads the clock again, inside
\* its own call of get_current_15min_timestamp
RefreshNext ==
    /\ pc = "refresh_next"
    /\ arg' = [fn |-> arg.fn, started |-> arg.started,
               current_timestamp |-> arg.current_timestamp,
               next_timestamp |->
                   get_next_15min_timestamp(get_current_15min_timestamp(clock))]
    /\ pc' = "refresh_seconds"
    /\ UNCHANGED <<featured_conditions, clock, idx, featured, ret,
                   current_timestamp, step, resolved, log, observe, result>>

\* app.py line 209, utils.py line 101: get_seconds_until_next_15min() reads
\* the clock into `now`
RefreshSecondsReadsNow ==
    /\ pc = "refresh_seconds"
    /\ \E m \in Microseconds :
          arg' = [fn |-> arg.fn, started |-> arg.started,
                  current_timestamp |-> arg.current_timestamp,
                  next_timestamp |-> arg.next_timestamp,
                  now |-> [second |-> clock, microsecond |-> m]]
    /\ pc' = "refresh_respond"
    /\ UNCHANGED <<featured_conditions, clock, idx, featured, ret,
                   current_timestamp, step, resolved, log, observe, result>>

\* the numbers of the body of lines 215-228
refresh_response(current, next, seconds_until) ==
    [fn |-> "get_next_refresh_time",
     success |-> TRUE,
     current_interval |-> [timestamp |-> current],
     next_interval |-> [timestamp |-> next],
     seconds_until_next |-> seconds_until,
     minutes_until_next |-> seconds_until \div 60]

\* utils.py lines 102-109 and app.py lines 211-228: the clock is read once
\* more inside get_current_15min_timestamp, and the response is built
RefreshRespond ==
    /\ pc = "refresh_respond"
    /\ result' = refresh_response(
                     arg.current_timestamp,
                     arg.next_timestamp,
                     get_seconds_until_next_15min(arg.now,
                                                  get_current_15min_timestamp(clock)))
    /\ pc' = "returned"
    /\ UNCHANGED <<featured_conditions, clock, idx, featured, ret,
                   current_timestamp, step, resolved, log, observe, arg>>

\* two calls of _fetch_market_by_slug, one per response
FetchBySlug ==
    /\ pc = "call"
    /\ arg.fn = "_fetch_market_by_slug"
    /\ result' = [n \in 1..2 |-> _fetch_market_by_slug(arg.resps[n])]
    /\ pc' = "returned"
    /\ UNCHANGED <<featured_conditions, clock, idx, featured, ret,
                   current_timestamp, step, resolved, log, observe, arg>>

\* the classification of an identifier
Classify ==
    /\ pc = "call"
    /\ arg.fn = "classify"
    /\ result' = classify(arg.identifier)
    /\ pc' = "returned"
    /\ UNCHANGED <<featured_conditions, clock, idx, featured, ret,
                   current_timestamp, step, resolved, log, observe, arg>>

\* lines 169 and 188 form a candidate slug; extract_timestamp_from_slug and
\* lines 158-163 take it apart
CandidateSlug ==
    /\ pc = "call"
    /\ arg.fn = "test_slug"
    /\ result' = classify(test_slug(arg.base, arg.window))
    /\ pc' = "returned"
    /\ UNCHANGED <<featured_conditions, clock, idx, featured, ret,
                   current_timestamp, step, resolved, log, observe, arg>>

\* a call of _format_market; result is Raised when the call raises
FormatMarket ==
    /\ pc = "call"
    /\ arg.fn = "_format_market"
    /\ result' = _format_market(arg.market)
    /\ pc' = "returned"
    /\ UNCHANGED <<featured_conditions, clock, idx, featured, ret,
                   current_timestamp, step, resolved, log, observe, arg>>

NextCalls ==
    \/ ClockAdvances
    \/ GetCurrent
    \/ GetNextReadsNow
    \/ GetNext
    \/ GetSecondsReadsNow
    \/ GetSeconds
    \/ RefreshClockAdvances
    \/ RefreshCurrent
    \/ RefreshNext
    \/ RefreshSecondsReadsNow
    \/ RefreshRespond
    \/ FetchBySlug
    \/ Classify
    \/ CandidateSlug
    \/ FormatMarket

SpecCalls == InitCalls /\ [][NextCalls]_vars

Next ==
    \/ Tick
    \/ Enter
    \/ NextIdentifier
    \/ TryCurrentInterval
    \/ TryRecentInterval
    \/ SearchAllMarkets
    \/ DirectSlugLookup
    \/ ConditionIdLookup
    \/ PopularMarkets

Spec == Init /\ [][Next]_vars

SpecBatch == InitBatch /\ [][Next]_vars

\* the steps of get_featured_markets itself: every step of Next but the
\* advance of the clock
Request ==
    \/ Enter
    \/ NextIdentifier
    \/ TryCurrentInterval
    \/ TryRecentInterval
    \/ SearchAllMarkets
    \/ DirectSlugLookup
    \/ ConditionIdLookup
    \/ PopularMarkets

\* the longest list of identifiers of a call whose requests are recorded
MaxLive == 2

\* states of the Gamma API in which no candidate slug has a market, or the
\* slug of the next window alone has one
\* what such a state answers to the request for the popular markets
LivePopular ==
    {[kind |-> "raise", data |-> <<>>],
     [kind |-> "ok", data |-> <<Rec(MarketSlug, TRUE, FALSE, Question, GoodTokens)>>]}

LiveServices ==
    {[type |-> "service", slugs |-> sv.slugs, listing |-> sv.listing,
      condition |-> sv.condition, popular |-> p] :
        sv \in {s \in Services :
                  \A t \in PairSlugs :
                      s.slugs[t] = "ok" =>
                          t = test_slug(BtcUpdown,
                                        get_current_15min_timestamp(ClockStart) + 900)},
        p \in LivePopular}

\* one call of get_featured_markets over a list of identifiers against one
\* state of the service, the requests of the identifier under resolution
\* recorded
InitLive ==
    /\ featured_conditions \in SeqUpTo(BatchIdentifiers, MaxLive)
    /\ arg \in LiveServices
    /\ observe = TRUE
    /\ pc = "entry"
    /\ result = None
    /\ InitCommon

\* the guards of Request: the call has not returned, and the loop over the
\* identifiers stands at an identifier of the list
CanRequest ==
    \/ pc \in {"entry", "popular", "current", "recent", "listing", "slug", "condition"}
    \/ pc = "next" /\ idx <= Len(featured_conditions)

\* the call is one sequential thread and every external request carries a
\* timeout (lines 40, 206, 304), so a step that can be taken is taken: weak
\* fairness of Request, with the enabling condition of Request written out
\* as CanRequest, and of the two steps that send no request
Fairness ==
    /\ []<>(~CanRequest) \/ []<><<Request>>_vars
    /\ WF_vars(Enter)
    /\ WF_vars(NextIdentifier)

SpecLive == InitLive /\ [][Next]_vars /\ Fairness

\* one call of get_featured_markets over the bare identifier of a family and
\* a dated one, at one instant and against one state of the service
InitPair ==
    /\ featured_conditions \in {<<BtcUpdown, BtcUpdownStale>>, <<BtcUpdown, BtcUpdownLater>>}
    /\ arg \in Services
    /\ observe = FALSE
    /\ pc = "entry"
    /\ result = None
    /\ InitCommon

NextPair ==
    \/ Enter
    \/ NextIdentifier
    \/ TryCurrentInterval
    \/ TryRecentInterval
    \/ SearchAllMarkets
    \/ DirectSlugLookup
    \/ ConditionIdLookup

SpecPair == InitPair /\ [][NextPair]_vars

SpecSearch == InitSearch /\ [][NextSearch]_vars

---------------------------------------------------------------------------
(* backend/app.py: the endpoints behind a session (specification SpecApi)   *)
(* arg holds the session store, result the last response, log the calls the *)
(* order endpoint made to the trading client, step the requests served      *)

\* float('nan'), which the JSON body of a request can carry
NaN == [type |-> "nan"]

\* a < b and a <= b on floats: every comparison with nan is False
lt(a, b) == a.type = "float" /\ b.type = "float" /\ a.val < b.val

le(a, b) == a.type = "float" /\ b.type = "float" /\ a.val <= b.val

\* line 109: f"session_{request.fid}_{request.address[:10]}"
session_id_of(fid, address) == [type |-> "session", fid |-> fid, head |-> address.head]

\* at most so many requests are served
MaxRequests == 2

Fids == {1, 2}

\* addresses by what lines 101 and 109 read of them: whether the address
\* starts with 0x and has 42 characters, and its first ten characters
Addresses == {[well_formed |-> w, head |-> h] : w \in BOOLEAN, h \in {"0xaaaaaaaa"}}

\* the session ids a request can name: those /connect can issue, and one it
\* never issues
SessionIds ==
    {session_id_of(f, a) : f \in Fids, a \in Addresses}
    \cup {[type |-> "session", fid |-> 0, head |-> "forged"]}

\* prices and sizes of an order, in tenths
Amounts == {Float(0 - 1), Float(0), Float(5), Float(10), Float(15), NaN}

Sides == {"BUY", "SELL", "buy", "HOLD"}

OrderRequests ==
    {[session_id |-> i, token_id |-> <<"1">>, side |-> sd, price |-> p, size |-> sz] :
        i \in SessionIds, sd \in Sides, p \in Amounts, sz \in Amounts}

\* whether a call of the trading client or of the wallet manager returns
CallOutcomes == {"returns", "raises"}

\* raise HTTPException(status_code=status): no call has been made yet
HTTPException(status) == [type |-> "raise", status |-> status, calls |-> <<>>]

\* a returned dict, answered with status 200
Return(calls) == [type |-> "return", status |-> 200, calls |-> calls]

\* an exception out of a call that was made
Exception(calls) == [type |-> "raise", status |-> 0, calls |-> calls]

\* the handler every endpoint ends with (lines 167-169, 353-355, 385-387,
\* 411-413, 436-438): except Exception catches whatever the try block
\* raised, an HTTPException included, and raises HTTPException(500)
except_Exception(out) ==
    IF out.type = "raise"
    THEN [type |-> "raise", status |-> 500, calls |-> out.calls]
    ELSE out

\* the try block of place_order (lines 313-351)
place_order_try(sessions, request, outcome) ==
    IF request.session_id \notin sessions THEN HTTPException(401)
    ELSE IF request.side \notin {"BUY", "SELL"} THEN HTTPException(400)
    ELSE IF ~(lt(Float(0), request.price) /\ lt(request.price, Float(10)))
         THEN HTTPException(400)
    ELSE IF le(request.size, Float(0)) THEN HTTPException(400)
    ELSE IF outcome = "raises"
         THEN Exception(<<[fn |-> "place_limit_order", request |-> request]>>)
         ELSE Return(<<[fn |-> "place_limit_order", request |-> request]>>)

place_order(sessions, request, outcome) ==
    except_Exception(place_order_try(sessions, request, outcome))

\* the try block of an endpoint that only validates the session and then
\* calls the trading client or the wallet manager: deposit_funds (lines
\* 143-165), cancel_order (363-383), get_orders (395-409), get_balance
\* (421-434)
session_endpoint_try(sessions, session_id, outcome) ==
    IF session_id \notin sessions THEN HTTPException(401)
    ELSE IF outcome = "raises" THEN Exception(<<>>)
    ELSE Return(<<>>)

session_endpoint(sessions, session_id, outcome) ==
    except_Exception(session_endpoint_try(sessions, session_id, outcome))

\* the try block of connect_wallet (lines 98-128)
connect_wallet_try(request, outcome) ==
    IF ~request.address.well_formed THEN HTTPException(400)
    ELSE IF outcome = "raises" THEN Exception(<<>>)
    ELSE Return(<<>>)

connect_wallet(request, outcome) == except_Exception(connect_wallet_try(request, outcome))

Response(endpoint, request, answer) ==
    [endpoint |-> endpoint, request |-> request,
     status |-> answer.status, calls |-> answer.calls]

\* the server is up: no session, no request served
InitApi ==
    /\ arg = [type |-> "app", sessions |-> {}]
    /\ pc = "serve"
    /\ result = None
    /\ observe = TRUE
    /\ featured_conditions = <<>>
    /\ InitCommon

\* POST /connect (lines 88-132): a well-formed address gets a session
ConnectWallet ==
    /\ pc = "serve" /\ step < MaxRequests
    /\ \E f \in Fids, a \in Addresses, outcome \in CallOutcomes :
          /\ result' = Response("/connect", [fid |-> f, address |-> a],
                                connect_wallet([fid |-> f, address |-> a], outcome))
          /\ arg' = IF result'.status = 200
                    THEN [type |-> "app",
                          sessions |-> arg.sessions \cup {session_id_of(f, a)}]
                    ELSE arg
    /\ step' = step + 1
    /\ UNCHANGED <<featured_conditions, clock, pc, idx, featured, ret,
                   current_timestamp, resolved, log, observe>>

\* POST /order (lines 306-355)
PlaceOrder ==
    /\ pc = "serve" /\ step < MaxRequests
    /\ \E r \in OrderRequests, o \in CallOutcomes :
       \E answer \in {place_order(arg.sessions, r, o)} :
          /\ result' = Response("/order", r, answer)
          /\ log' = log \o answer.calls
    /\ step' = step + 1
    /\ UNCHANGED <<featured_conditions, clock, pc, idx, featured, ret,
                   current_timestamp, resolved, observe, arg>>

\* POST /deposit, POST /cancel, GET /orders, GET /balance (lines 135-169,
\* 358-438); the wallet manager swallows its own exceptions
SessionEndpoint ==
    /\ pc = "serve" /\ step < MaxRequests
    /\ \E e \in {"/deposit", "/cancel", "/orders", "/balance"},
          i \in SessionIds \cup {None},
          o \in CallOutcomes :
          /\ e \in {"/deposit", "/cancel"} => i # None
          /\ e \in {"/deposit", "/balance"} => o = "returns"
          /\ result' = Response(e, [session_id |-> i],
                                session_endpoint(arg.sessions, i, o))
    /\ step' = step + 1
    /\ UNCHANGED <<featured_conditions, clock, pc, idx, featured, ret,
                   current_timestamp, resolved, log, observe, arg>>

NextApi ==
    \/ ConnectWallet
    \/ PlaceOrder
    \/ SessionEndpoint

SpecApi == InitApi /\ [][NextApi]_vars

---------------------------------------------------------------------------
(* Properties of the candidate probing (specification Spec)                *)

\* the history entries of the candidate slug probes, in the order issued
Probes == SelectSeq(log, LAMBDA e : e.at \in {"current", "recent"})

ProbedSlugs == [n \in 1..Len(Probes) |-> Probes[n].slug]

\* the candidate slug of the family at `offset` seconds from the window read
Candidate(offset) == BtcUpdown \o <<"-">> \o str(current_timestamp + offset)

\* the priority order of the candidates: offsets 0, -1, -2, +1 in width units
PriorityOrder == <<0, 0 - 900, 0 - 1800, 900>>

\* the last request was a candidate probe answered with an active record
ProbeHit ==
    /\ Len(log) > 0
    /\ log[Len(log)].at \in {"current", "recent"}
    /\ log[Len(log)].resp = "active"

\* C1: when every probe of a periodic identifier missed, the slugs probed are
\* exactly the four candidates W, W-900, W-1800, W+900, in this order
C1_ExactlyFourProbes ==
    pc = "listing" =>
        ProbedSlugs = <<Candidate(0), Candidate(0 - 900),
                        Candidate(0 - 1800), Candidate(900)>>

\* C2: within one resolution, a slug whose fetch returned 404, an error or a
\* timeout is not requested a second time
C2_NoSlugRequestedAgain ==
    \A i, j \in 1..Len(log) :
        (/\ i < j
         /\ log[i].req = "slug"
         /\ log[j].req = "slug"
         /\ log[i].slug = log[j].slug) => log[i].resp \notin {"404", "error"}

\* C3: the market the candidate probing returns is the record of the first
\* candidate, in the order 0, -1, -2, +1, that answered active: it is active
\* and not closed, and every candidate before it in that order was probed and
\* answered with no active record (not found, failed, or closed and skipped)
C3_FirstActiveCandidate ==
    ProbeHit =>
        LET hit == log[Len(log)]
            returned == resolved[Len(resolved)]
        IN  /\ Len(resolved) = 1
            /\ returned.type = "market"
            /\ returned.slug = hit.slug
            /\ returned.active /\ ~returned.closed
            /\ \E k \in 1..4 :
                  /\ Candidate(PriorityOrder[k]) = hit.slug
                  /\ \A j \in 1..(k - 1) :
                        /\ \E n \in 1..Len(log) :
                              log[n].slug = Candidate(PriorityOrder[j])
                        /\ \A n \in 1..Len(log) :
                              log[n].slug = Candidate(PriorityOrder[j])
                                  => log[n].resp # "active"

\* C3 witness: the next window is returned behind a closed previous window
C3_Witness ==
    /\ ProbeHit
    /\ log[Len(log)].slug = Candidate(900)
    /\ \E n \in 1..Len(log) :
          log[n].slug = Candidate(0 - 900) /\ log[n].resp = "closed"

\* C4: the bulk listing is requested only after every candidate slug was
\* probed and no probe produced an active record
C4_ListingAfterAllProbes ==
    \A n \in 1..Len(log) :
        log[n].req = "listing" =>
            /\ \A k \in 1..4 :
                  \E i \in 1..(n - 1) :
                      /\ log[i].at \in {"current", "recent"}
                      /\ log[i].slug = Candidate(PriorityOrder[k])
            /\ \A i \in 1..(n - 1) : log[i].resp # "active"

\* C4 witness: the bulk listing was requested
C4_Witness == \E n \in 1..Len(log) : log[n].req = "listing"

\* the case of C5: "btc-updown-15m", the current-window probe answered 404,
\* the next-window probe answered with an active record
C5_Case ==
    /\ featured_conditions = <<BtcUpdown>>
    /\ \E i \in 1..Len(log) :
          /\ log[i].at = "current"
          /\ log[i].slug = Candidate(0)
          /\ log[i].resp = "404"
    /\ \E j \in 1..Len(log) :
          log[j].slug = Candidate(900) /\ log[j].resp = "active"

\* C5: in that case the resolver returns the next-window record and the bulk
\* listing is never requested
C5_NextWindowNoFallback ==
    C5_Case =>
        /\ Len(resolved) = 1
        /\ resolved[1].type = "market"
        /\ resolved[1].slug = Candidate(900)
        /\ resolved[1].active /\ ~resolved[1].closed
        /\ \A n \in 1..Len(log) : log[n].req # "listing"

\* C5 witness: the case, with the call returned
C5_Witness == C5_Case /\ pc = "done"

---------------------------------------------------------------------------
(* Properties of the search in the bulk listing (specification SpecSearch) *)

\* positions of arg whose slug belongs to the family
Matching == {n \in 1..Len(arg) : arg[n].match}

\* j ranks before n: a later timestamp, or the same one earlier in the listing
RanksBefore(j, n) ==
    \/ arg[j].ts > arg[n].ts
    \/ arg[j].ts = arg[n].ts /\ j < n

\* 1-based place of position n in the ranking
Place(n) == Cardinality({j \in Matching : RanksBefore(j, n)}) + 1

ActiveMatching == {n \in Matching : arg[n].active /\ ~arg[n].closed}

SameRecord(m, r) ==
    /\ m.slug = r.slug
    /\ m.active = r.active
    /\ m.closed = r.closed

\* the listing of the example: timestamps 100, 300, 200, all active
Example(ts) ==
    [n \in 1..Len(ts) |->
        [slug |-> BtcUpdown \o <<"-">> \o str(ts[n]), ts |-> ts[n], match |-> TRUE,
         active |-> TRUE, closed |-> FALSE]]

\* C6: the matches are ranked by trailing timestamp, descending, listing
\* order kept among equal timestamps, and the market yielded is the first
\* active match of that ranking; [100, 300, 200] ranks as [300, 200, 100]
C6_RankedByTimestamp ==
    pc = "searched" =>
        /\ Len(result.ranked) = Cardinality(Matching)
        /\ \A n \in Matching : SameRecord(result.ranked[Place(n)].market, arg[n])
        /\ \A n \in ActiveMatching :
              (\A j \in ActiveMatching : j = n \/ RanksBefore(n, j))
                  => SameRecord(result.best, arg[n])
        /\ arg = Example(<<100, 300, 200>>) =>
              /\ result.ranked[1].timestamp = PyInt(300)
              /\ result.ranked[2].timestamp = PyInt(200)
              /\ result.ranked[3].timestamp = PyInt(100)

\* C6 witness: the top-ranked match is closed, an equal timestamp follows it
\* in listing order, and the active match ranked second is yielded
C6_Witness ==
    /\ pc = "searched"
    /\ Len(arg) = 3
    /\ Cardinality(Matching) = 3
    /\ arg[1].ts = 200 /\ arg[2].ts = 300 /\ arg[3].ts = 200
    /\ arg[1].slug # arg[3].slug
    /\ arg[2].closed /\ arg[1].active /\ ~arg[1].closed
    /\ result.best.slug = arg[1].slug

\* C7: the search never yields a record that is inactive or closed, and when
\* records match but none of them is active it yields nothing
C7_OnlyActiveYielded ==
    pc = "searched" =>
        /\ result.best # None => (result.best.active /\ ~result.best.closed)
        /\ (Matching # {} /\ ActiveMatching = {}) => result.best = None

\* C7 witness: matches exist, inactive and closed ones, none active
C7_Witness ==
    /\ pc = "searched"
    /\ \E n \in Matching : arg[n].closed
    /\ \E n \in Matching : ~arg[n].active
    /\ ActiveMatching = {}
    /\ result.best = None

\* positions of arg whose slug belongs to the family and ends in no numeric
\* segment
Undated == {n \in Matching : arg[n].ts = 0}

\* places of the ranking without a timestamp
UndatedPlaces == {k \in 1..Len(result.ranked) : result.ranked[k].timestamp = None}

\* C28: a matching record whose slug has no trailing numeric segment is kept
\* with no timestamp and ranked as timestamp 0: behind every match with a
\* positive timestamp, and it is the market yielded when it is the only
\* active match
C28_UndatedRanksLast ==
    pc = "searched" =>
        /\ Cardinality(UndatedPlaces) = Cardinality(Undated)
        /\ \A k \in UndatedPlaces :
              /\ result.ranked[k].slug = BtcUpdown
              /\ sort_key(result.ranked[k]) = 0
              /\ \A l \in 1..Len(result.ranked) :
                    (/\ l \notin UndatedPlaces
                     /\ result.ranked[l].timestamp.val > 0) => l < k
        /\ \A n \in Undated :
              ActiveMatching = {n} => SameRecord(result.best, arg[n])

\* the undated record comes first in the listing, a later closed window and
\* an inactive one follow it, and the undated record is the one yielded
C28_Witness ==
    /\ pc = "searched"
    /\ Len(arg) = 3
    /\ Undated = {1}
    /\ ActiveMatching = {1}
    /\ Cardinality(Matching) = 3
    /\ UndatedPlaces = {3}
    /\ result.best.slug = BtcUpdown

---------------------------------------------------------------------------
(* Properties of the batch operation (specification SpecBatch)             *)

\* identifier number i resolved: the resolver returned a record that is
\* active, not closed, and that the formatter accepts
Succeeded(i) ==
    /\ resolved[i].type = "market"
    /\ resolved[i].active /\ ~resolved[i].closed
    /\ _format_market(resolved[i]) # Raised

\* the positions of the identifiers that resolved, in input order
Hits == SelectSeq([i \in 1..Len(resolved) |-> i], LAMBDA i : Succeeded(i))

\* the positions of the identifiers that exhausted every strategy
Missed == SelectSeq([i \in 1..Len(resolved) |-> i], LAMBDA i : ~Succeeded(i))

\* the call over a configured identifier list has returned
BatchDone == pc = "done" /\ Len(featured_conditions) > 0

\* the market of identifier number j is an entry of the returned list
InResult(j) ==
    \E k \in 1..Len(ret.value) :
        /\ ret.value[k].slug = resolved[j].slug
        /\ ret.value[k].question = resolved[j].question

\* C8: the list returned holds one canonical market per identifier that
\* resolved, in input order, and nothing for an identifier that failed; of
\* three identifiers whose second fails, the first and third markets remain
C8_OneMarketPerResolved ==
    BatchDone =>
        /\ Len(ret.value) = Len(Hits)
        /\ \A k \in 1..Len(Hits) :
              LET canonical == _format_market(resolved[Hits[k]])
              IN  /\ ret.value[k].slug = canonical.slug
                  /\ ret.value[k].question = canonical.question
                  /\ ret.value[k].condition_id = canonical.condition_id
                  /\ ret.value[k].tokens = canonical.tokens
                  /\ ret.value[k].active /\ ~ret.value[k].closed
        /\ (Len(resolved) = 3 /\ Hits = <<1, 3>>) =>
              /\ Len(ret.value) = 2
              /\ ret.value[1].slug = resolved[1].slug
              /\ ret.value[2].slug = resolved[3].slug

\* C9: the value returned carries, next to the markets, a misses sequence:
\* the identifiers that exhausted every strategy, in input order
C9_MissesReturned ==
    BatchDone =>
        /\ "misses" \in DOMAIN ret
        /\ ret.misses = [k \in 1..Len(Missed) |-> featured_conditions[Missed[k]]]

\* C10: the call returns a list, never an exception, and the market of every
\* identifier that resolved to a well-formed record is in that list, whatever
\* happened to the identifiers before and after it
C10_FailureKeepsOthers ==
    BatchDone =>
        /\ ret.type = "returned"
        /\ \A j \in 1..Len(resolved) :
              (Succeeded(j) /\ Sliceable(resolved[j].question)) => InResult(j)

---------------------------------------------------------------------------
(* Properties of the cascade of one identifier (specification Spec)        *)

\* the steps a miss at step `at` leads to, for the identifier under resolution
StepsAfter(at) ==
    IF at = "current" THEN {"recent"}
    ELSE IF at = "recent" THEN {"recent", "listing"}
    ELSE IF at = "listing" THEN {IF is_slug(featured_conditions[1]) THEN "slug" ELSE "condition"}
    ELSE IF at = "slug" THEN {"condition"}
    ELSE {}

\* the request number n of the history failed: an error status other than
\* 404, a network error or a timeout
Transient(n) == log[n].resp = "error"

\* C11: a transient failure of a step is a miss of that step only: behind a
\* failed slug probe, bulk listing or direct slug fetch the next step of the
\* cascade is the one attempted, only a failed condition-id lookup (the last
\* step) ends the resolution, and an active hit behind a failure is the
\* market the resolver returns
C11_TransientMissOnly ==
    /\ \A n \in 1..Len(log) :
          Transient(n) =>
              IF n < Len(log)
              THEN log[n + 1].at \in StepsAfter(log[n].at)
              ELSE IF log[n].at = "condition"
                   THEN pc = "done" /\ resolved = <<None>>
                   ELSE pc \in StepsAfter(log[n].at)
    /\ \A n \in 1..Len(log) :
          (/\ n < Len(log)
           /\ Transient(n)
           /\ log[Len(log)].resp = "active") =>
              /\ pc = "done"
              /\ Len(resolved) = 1
              /\ resolved[1].type = "market"
              /\ resolved[1].active /\ ~resolved[1].closed
              /\ log[Len(log)].req = "slug" => resolved[1].slug = log[Len(log)].slug

\* C11 witness: a candidate probe and the bulk listing both failed, and the
\* direct slug fetch behind them returned the active market
C11_Witness ==
    /\ pc = "done"
    /\ \E i, j \in 1..Len(log) :
          /\ log[i].at = "recent" /\ Transient(i)
          /\ log[j].at = "listing" /\ Transient(j)
    /\ log[Len(log)].at = "slug"
    /\ log[Len(log)].resp = "active"
    /\ Len(ret.value) = 1

\* the identifier under resolution is static: it carries no family marker
Static == Len(featured_conditions) = 1 /\ ~is_15min_interval_market(featured_conditions[1])

\* the records of a condition-id response that are active and not closed
ActiveOf(items) == {k \in 1..Len(items) : items[k].active /\ ~items[k].closed}

\* C13: for a static identifier the slug fetch comes first, where the
\* identifier is a slug, and the condition-id lookup only behind a slug fetch
\* that gave no active market; of a condition-id response with several
\* records the first active one is returned, wherever it stands
C13_StaticCascade ==
    Static =>
        /\ Len(log) <= 2
        /\ \A n \in 1..Len(log) :
              /\ log[n].at \in {"slug", "condition"}
              /\ log[n].at = "slug" => (n = 1 /\ is_slug(featured_conditions[1]))
              /\ log[n].at = "condition" =>
                    IF is_slug(featured_conditions[1])
                    THEN n = 2 /\ log[1].at = "slug" /\ log[1].resp # "active"
                    ELSE n = 1
        /\ (Len(log) = 1 /\ log[1].at = "slug") =>
              IF log[1].resp = "active" THEN pc = "done" ELSE pc = "condition"
        /\ \A n \in 1..Len(log) :
              (/\ log[n].at = "condition"
               /\ log[n].data.type = "list"
               /\ ActiveOf(log[n].data.items) # {}) =>
                  LET first == CHOOSE k \in ActiveOf(log[n].data.items) :
                                  \A j \in ActiveOf(log[n].data.items) : k <= j
                  IN  /\ Len(resolved) = 1
                      /\ resolved[1] = log[n].data.items[first]
                      /\ resolved[1].active /\ ~resolved[1].closed

\* C13 witness: the slug fetch of "x-7" found nothing, the condition-id
\* lookup answered a closed record followed by an active one, and the active
\* one is returned
C13_Witness ==
    /\ Static
    /\ pc = "done"
    /\ Len(log) = 2
    /\ log[1].at = "slug" /\ log[1].resp = "404"
    /\ log[2].data.type = "list"
    /\ Len(log[2].data.items) = 2
    /\ log[2].data.items[1].closed
    /\ resolved = <<log[2].data.items[2]>>

\* x ends in a numeric segment: digits behind its last "-"
EndsInDigits(x) ==
    \E i \in 1..(Len(x) - 1) :
        /\ x[i] = "-"
        /\ \A k \in (i + 1)..Len(x) : \E d \in 1..Len(Digits) : Digits[d] = x[k]

\* C19: every lookup for a static identifier that ends in a numeric segment,
\* slug fetch and condition-id lookup, is made with the identifier as
\* configured: the trailing digits are not stripped
C19_StaticIdentifierUnaltered ==
    (Static /\ EndsInDigits(featured_conditions[1])) =>
        \A n \in 1..Len(log) :
            /\ log[n].req \in {"slug", "condition_ids"}
            /\ log[n].slug = featured_conditions[1]

\* C19 witness: "x-7" was fetched as a slug and looked up as a condition id
C19_Witness ==
    /\ featured_conditions = <<StaticSlug>>
    /\ Len(log) = 2
    /\ log[1].req = "slug" /\ log[1].slug = StaticSlug
    /\ log[2].req = "condition_ids" /\ log[2].slug = StaticSlug

\* the request number n of the history yielded an active market: a slug
\* fetch answered with an active record, or a bulk listing with an active
\* match
Yielded(n) == log[n].resp = "active"

\* C26: once a step of the cascade yields an active market, no further
\* request is made for the identifier: the yielding request is the last of
\* the history and the resolution is over, with that market returned by the
\* resolver
C26_NoRequestAfterHit ==
    \A n \in 1..Len(log) :
        Yielded(n) =>
            /\ n = Len(log)
            /\ pc = "done"
            /\ Len(resolved) = 1
            /\ resolved[1] # None

\* the second candidate probe hit: no later probe, no bulk listing
C26_Witness ==
    /\ pc = "done"
    /\ Len(log) = 3
    /\ log[3].at = "recent"
    /\ Yielded(3)

\* the slug of a static identifier hit: no condition-id lookup
C26_WitnessStatic ==
    /\ Static
    /\ pc = "done"
    /\ Len(log) = 1
    /\ log[1].at = "slug"
    /\ Yielded(1)

\* the identifier has a separator and not the prefix of a condition id
SlugShaped(identifier) ==
    /\ \E n \in 1..Len(identifier) : identifier[n] = "-"
    /\ ~(Len(identifier) >= 2 /\ identifier[1] = "0" /\ identifier[2] = "x")

\* C27: an identifier that begins with "0x" or has no "-" is never sent to
\* the fetch-by-slug endpoint; an identifier with a "-" that does not begin
\* with "0x" is fetched as a slug before it is looked up as a condition id
C27_SlugBeforeConditionId ==
    Len(featured_conditions) = 1 =>
        /\ ~SlugShaped(featured_conditions[1]) =>
              \A n \in 1..Len(log) :
                  log[n].req = "slug" => log[n].slug # featured_conditions[1]
        /\ SlugShaped(featured_conditions[1]) =>
              \A n \in 1..Len(log) :
                  log[n].req = "condition_ids" =>
                      /\ log[n].slug = featured_conditions[1]
                      /\ \E i \in 1..(n - 1) :
                            /\ log[i].req = "slug"
                            /\ log[i].slug = featured_conditions[1]

\* "0x-7" went to the condition-id lookup only
C27_Witness ==
    /\ featured_conditions = <<HexDashed>>
    /\ pc = "done"
    /\ Len(log) = 1
    /\ log[1].req = "condition_ids"

\* "x-7" went to the slug fetch, then to the condition-id lookup
C27_WitnessSlug ==
    /\ featured_conditions = <<StaticSlug>>
    /\ pc = "done"
    /\ Len(log) = 2
    /\ log[1].req = "slug" /\ log[1].slug = StaticSlug
    /\ log[2].req = "condition_ids"

\* every market of the list returned is active and not closed
AllReturnedActive ==
    \A k \in 1..Len(ret.value) : ret.value[k].active /\ ~ret.value[k].closed

\* C29: every market in the list get_featured_markets returns is active and
\* not closed, in every mode, the mode with no configured identifier included
C29_ReturnedAreActive == ret.type = "returned" => AllReturnedActive

\* with identifiers configured the list holds active markets only
C29_ConfiguredMode ==
    (ret.type = "returned" /\ Len(featured_conditions) > 0) => AllReturnedActive

\* with no identifier configured a closed market is returned
C29_ClosedReturned ==
    /\ ret.type = "returned"
    /\ featured_conditions = <<>>
    /\ \E k \in 1..Len(ret.value) : ret.value[k].closed

\* the window of the clock reading taken before the first probe
FirstReading == get_current_15min_timestamp(ClockStart)

\* the clock went into the next window after that reading
Rotated == get_current_15min_timestamp(clock) # FirstReading

\* C32: every candidate slug probed in one resolution of a periodic
\* identifier is built from the one clock reading taken before the first
\* probe; a window rotation while the probes are in flight changes no
\* candidate
C32_OneClockReading ==
    Len(featured_conditions) = 1 =>
        /\ Len(Probes) > 0 => current_timestamp = FirstReading
        /\ \A n \in 1..Len(Probes) :
              \E d \in {0, 0 - 900, 0 - 1800, 900} :
                  Probes[n].slug =
                      test_slug(base_pattern(featured_conditions[1]), FirstReading + d)

\* the window rotated during the probes, and the probe of the next window
\* went to the window after the one first read
C32_Witness ==
    /\ Rotated
    /\ pc = "listing"
    /\ Len(Probes) = 5
    /\ Probes[5].slug = test_slug(BtcUpdown, FirstReading + 900)

\* the requests of the history sent from position `at` of the cascade
RequestsAt(at) == SelectSeq(log, LAMBDA e : e.at = at)

\* the position of a step in the order of the cascade
Rank(p) ==
    IF p = "entry" THEN 0
    ELSE IF p \in {"next", "popular"} THEN 1
    ELSE IF p = "current" THEN 2
    ELSE IF p = "recent" THEN 3
    ELSE IF p = "listing" THEN 4
    ELSE IF p = "slug" THEN 5
    ELSE IF p = "condition" THEN 6
    ELSE 7

\* the requests of one identifier: at most five slug probes, one bulk
\* listing, one direct slug fetch and one condition-id lookup
RequestsBounded ==
    /\ Len(log) <= 8
    /\ Len(Probes) <= 5
    /\ Len(RequestsAt("listing")) <= 1
    /\ Len(RequestsAt("slug")) <= 1
    /\ Len(RequestsAt("condition")) <= 1

\* a step moves on to the next identifier, or to a later step of the same
\* identifier, or to the next offset of the loop; or the clock advances
NoStepBack ==
    \/ idx' > idx
    \/ idx' = idx /\ Rank(pc') > Rank(pc)
    \/ idx' = idx /\ pc' = pc /\ pc = "recent" /\ step' > step
    \/ idx' = idx /\ pc' = pc /\ step' = step /\ clock' > clock

Terminated == pc = "done" /\ ret # NotReturned

\* a call that has not returned can take its next step
NotStuck == Terminated \/ CanRequest

\* C34: resolving one identifier issues at most 8 external requests (five
\* slug probes, one bulk listing, one direct slug fetch, one condition-id
\* lookup), no step leads back to an earlier one, and get_featured_markets
\* returns on every list of identifiers
C34_BoundedAndTerminates ==
    /\ []RequestsBounded
    /\ []NotStuck
    /\ [][NoStepBack]_vars
    /\ <>Terminated

\* the bound and the order of the steps, over every response of the service
\* (specifications Spec and SpecBatch)
C34_BoundedEveryResponse == []RequestsBounded /\ []NotStuck /\ [][NoStepBack]_vars

\* the call has returned, and its last identifier took all eight requests
C34_Witness ==
    /\ Terminated
    /\ Len(featured_conditions) = MaxLive
    /\ Len(log) = 8
    /\ Len(Probes) = 5
    /\ Len(RequestsAt("listing")) = 1
    /\ Len(RequestsAt("slug")) = 1
    /\ Len(RequestsAt("condition")) = 1

---------------------------------------------------------------------------
(* Properties of single functions (specification SpecCalls)                *)

\* two calls of _fetch_market_by_slug have returned
Fetched == pc = "returned" /\ arg # None /\ arg.fn = "_fetch_market_by_slug"

\* C12: what _fetch_market_by_slug returns for a 404 differs from what it
\* returns for an error status other than 404 or for a network failure
C12_NotFoundDistinct ==
    (/\ Fetched
     /\ arg.resps[1].kind = "404"
     /\ arg.resps[2].kind \in {"http_error", "timeout"}) => result[1] # result[2]

\* a call of get_current_15min_timestamp has returned
CurrentReturned ==
    pc = "returned" /\ arg = None /\ result.fn = "get_current_15min_timestamp"

\* C14: the window start W returned for the instant now holds W <= now < W + 900
C14_WindowContainsNow ==
    CurrentReturned =>
        /\ result.value <= result.now
        /\ result.now < result.value + 900

\* C14 witness: the last second of the fourth quarter of an hour
C14_Witness == CurrentReturned /\ result.now = 3599 /\ result.value = 2700

\* C15: the window start returned is floor(now / 900) * 900, a multiple of 900
C15_FloorOfNow ==
    CurrentReturned =>
        /\ result.value = (result.now \div 900) * 900
        /\ result.value % 900 = 0

\* C15 witness: an instant 61 seconds into the window that opens an hour
C15_Witness == CurrentReturned /\ result.now = 3661 /\ result.value = 3600

\* a call of get_next_15min_timestamp has returned
NextReturned ==
    pc = "returned" /\ arg # None /\ arg.fn = "get_next_15min_timestamp"

\* C16: the next-window start returned is the start of the window of the
\* instant the call computes from (the clock reading made inside
\* get_current_15min_timestamp) plus 900
C16_NextIsCurrentPlusWidth ==
    NextReturned =>
        /\ result.value = (result.now \div 900) * 900 + 900
        /\ result.value - 900 <= result.now
        /\ result.now < result.value

\* C16 witness: the call is made in the last second of a window
C16_Witness == NextReturned /\ result.now = 2699 /\ result.value = 2700

\* a call of get_seconds_until_next_15min has returned
SecondsReturned ==
    pc = "returned" /\ arg # None /\ arg.fn = "get_seconds_until_next_15min"

\* C17: the seconds-until-next-window value s holds 0 <= s < 900, also at an
\* instant that is a window boundary and when the clock crosses a boundary
\* during the call
C17_SecondsInRange ==
    SecondsReturned => (0 <= result.value /\ result.value < 900)

\* an identifier has been classified
Classified == pc = "returned" /\ arg # None /\ arg.fn = "classify"

\* c is the lower-case letter or the character d, in either case
SameLetter(c, d) ==
    \/ c = d
    \/ \E n \in 1..Len(LowerCase) : LowerCase[n] = d /\ UpperCase[n] = c

\* x carries `marker` (written in lower case) from position i on
MarkerAt(x, marker, i) ==
    /\ i + Len(marker) - 1 <= Len(x)
    /\ \A k \in 1..Len(marker) : SameLetter(x[i + k - 1], marker[k])

\* the family markers: the infix "-15m-" anywhere, the prefixes
\* "btc-updown-15m" and "eth-updown-15m", letters in either case
CarriesMarker(x) ==
    \/ \E i \in 1..Len(x) : MarkerAt(x, <<"-", "1", "5", "m", "-">>, i)
    \/ MarkerAt(x, BtcUpdown, 1)
    \/ MarkerAt(x, <<"e", "t", "h">> \o SubSeq(BtcUpdown, 4, 14), 1)

\* C18: an identifier is PERIODIC exactly when it carries a family marker;
\* "btc-updown-15m-1761921000" is PERIODIC with base pattern "btc-updown-15m"
\* and embedded timestamp 1761921000; "0xabc123" is STATIC
C18_ClassifiedByMarker ==
    Classified =>
        /\ result.kind = "PERIODIC" <=> CarriesMarker(arg.identifier)
        /\ result.kind \in {"PERIODIC", "STATIC"}
        /\ arg.identifier = BtcUpdownDated =>
              /\ result.kind = "PERIODIC"
              /\ result.base_pattern = BtcUpdown
              /\ result.embedded_timestamp = PyInt(1761921000)
        /\ MarkerAt(arg.identifier, <<"0", "x", "a", "b">>, 1) => result.kind = "STATIC"

\* C18 witness: "btc-updown-15m-1761921000" has been classified
C18_Witness == Classified /\ arg.identifier = BtcUpdownDated /\ result.kind = "PERIODIC"

\* a call of _format_market has ended
Formatted == pc = "returned" /\ arg # None /\ arg.fn = "_format_market"

\* the field of the raw record that carries its token ids
Delimited(market) ==
    /\ "clobTokenIds" \in DOMAIN market
    /\ market.clobTokenIds.type = "list" => market.clobTokenIds.items # <<>>
    /\ market.clobTokenIds.type = "str" => market.clobTokenIds.val # <<>>

Structured(market) == ~Delimited(market) /\ "tokens" \in DOMAIN market

\* the entries of a comma-separated text, blanks around them dropped
Entries(text) ==
    LET parts == split(text, ",")
        IsEntry(n) == \E k \in 1..Len(parts[n]) : parts[n][k] # " "
        Kept == {n \in 1..Len(parts) : IsEntry(n)}
        Nth(k) == CHOOSE n \in Kept : Cardinality({j \in Kept : j < n}) = k - 1
    IN  [k \in 1..Cardinality(Kept) |-> strip(parts[Nth(k)])]

\* the token ids the raw record carries, in its order
SourceIds(market) ==
    IF Delimited(market)
    THEN IF market.clobTokenIds.type = "str"
         THEN Entries(market.clobTokenIds.val)
         ELSE [n \in 1..Len(market.clobTokenIds.items) |->
                  strip(market.clobTokenIds.items[n])]
    ELSE IF Structured(market)
         THEN [n \in 1..Len(market.tokens) |->
                  IF "token_id" \in DOMAIN market.tokens[n]
                  THEN market.tokens[n].token_id
                  ELSE market.tokens[n].val]
    ELSE <<>>

\* C20: normalization never raises: it returns a canonical market for every
\* raw record, and a token whose price is malformed takes no other token of
\* the record out of the output
C20_NormalizationNeverRaises ==
    Formatted =>
        /\ result.type = "formatted"
        /\ Len(result.tokens) = Len(SourceIds(arg.market))
        /\ \A n \in 1..Len(result.tokens) :
              result.tokens[n].token_id = SourceIds(arg.market)[n]

\* a canonical market was normalized once more
Renormalized == Formatted /\ arg.market.type = "formatted"

\* C21: normalizing a canonical market (its tokens go through the
\* tokens-array path) yields a canonical market equal to the input in every
\* field, end_date included
C21_CanonicalIsFixedPoint ==
    Renormalized =>
        /\ result.type = "formatted"
        /\ result.end_date = arg.market.end_date
        /\ result = arg.market

\* every field but end_date survives the second normalization
C21_AllButEndDate ==
    Renormalized =>
        /\ result.type = "formatted"
        /\ [result EXCEPT !.end_date = arg.market.end_date] = arg.market

C21_EndDateLost ==
    /\ Renormalized
    /\ arg.market.end_date # <<>>
    /\ result.end_date = <<>>

\* the two token ids of a record that has a comma-separated clobTokenIds and
\* no field of outcomes or prices
TwoIdsOnly ==
    /\ Formatted
    /\ Delimited(arg.market)
    /\ arg.market.clobTokenIds.type = "str"
    /\ Len(SourceIds(arg.market)) = 2
    /\ DOMAIN arg.market \cap {"outcomes", "shortOutcomes", "outcomePrices"} = {}

\* C22: a delimited-string record with two token ids and no outcome and no
\* price field normalizes to exactly two tokens: "Yes" at 0.5 and "No" at
\* 0.5, each with its source token id
C22_TwoIdsYesNo ==
    TwoIdsOnly =>
        /\ result.type = "formatted"
        /\ Len(result.tokens) = 2
        /\ result.tokens[1].token_id = SourceIds(arg.market)[1]
        /\ result.tokens[1].outcome = <<"Y", "e", "s">>
        /\ result.tokens[1].price = Float(5)
        /\ result.tokens[2].token_id = SourceIds(arg.market)[2]
        /\ result.tokens[2].outcome = <<"N", "o">>
        /\ result.tokens[2].price = Float(5)

C22_Witness ==
    /\ TwoIdsOnly
    /\ arg.market.clobTokenIds.val = <<" ", "1", " ", ",", ",", "2">>
    /\ result.tokens[1].token_id = <<"1">>
    /\ result.tokens[2].token_id = <<"2">>

\* the record without its tokens array
WithoutTokens(market) == [k \in DOMAIN market \ {"tokens"} |-> market[k]]

\* a record with a non-empty clobTokenIds and a non-empty tokens array
BothShapes ==
    /\ Formatted
    /\ Delimited(arg.market)
    /\ "tokens" \in DOMAIN arg.market
    /\ arg.market.tokens # <<>>

\* C23: with a non-empty clobTokenIds and a tokens array, the canonical
\* tokens are built from clobTokenIds only: the result is the one the record
\* gives without its tokens array, and no token id of the array is in it
C23_DelimitedTakesPrecedence ==
    BothShapes =>
        /\ result = _format_market(WithoutTokens(arg.market))
        /\ result.type = "formatted" =>
              /\ Len(result.tokens) = Len(SourceIds(arg.market))
              /\ \A n \in 1..Len(result.tokens) :
                    /\ result.tokens[n].token_id = SourceIds(arg.market)[n]
                    /\ result.tokens[n].winner = FALSE

C23_Witness ==
    /\ BothShapes
    /\ arg.market.tokens[1] = PyStr(<<"8">>)
    /\ result.type = "formatted"
    /\ Len(result.tokens) = 2
    /\ result.tokens[1].token_id = <<"1">>
    /\ result.tokens[2].token_id = <<"2">>

C24_WitnessEmpty ==
    /\ Formatted
    /\ result.type = "formatted"
    /\ SourceIds(arg.market) = <<>>
    /\ result.tokens = <<>>

\* C25: every token price of a canonical market lies in [0, 1], whatever
\* prices the raw record carries
C25_PricesInUnitInterval ==
    (Formatted /\ result.type = "formatted") =>
        \A n \in 1..Len(result.tokens) :
            /\ result.tokens[n].price.type = "float"
            /\ result.tokens[n].price.val >= 0
            /\ result.tokens[n].price.val <= 10

\* a price above 1 from outcomePrices, and one below 0
C25_PriceAboveOne ==
    /\ Formatted
    /\ Delimited(arg.market)
    /\ result.type = "formatted"
    /\ \E n \in 1..Len(result.tokens) : result.tokens[n].price = Float(15)

C25_PriceBelowZero ==
    /\ Formatted
    /\ Delimited(arg.market)
    /\ result.type = "formatted"
    /\ \E n \in 1..Len(result.tokens) : result.tokens[n].price = Float(0 - 2)

\* a price above 1 from a token object
C25_TokenPriceAboveOne ==
    /\ Formatted
    /\ Structured(arg.market)
    /\ result.type = "formatted"
    /\ \E n \in 1..Len(result.tokens) : result.tokens[n].price = Float(15)

\* C31: taking the trailing timestamp off never changes the kind of an
\* identifier: it is periodic exactly when its base pattern is periodic
C31_BasePatternKeepsKind ==
    Classified =>
        (result.kind = "PERIODIC" <=> is_15min_interval_market(result.base_pattern))

\* "sol-updown-15m-900" is periodic by its "-15m-", "sol-updown-15m" is not
C31_KindChanged ==
    /\ Classified
    /\ arg.identifier = SolUpdown \o <<"-", "9", "0", "0">>
    /\ result.kind = "PERIODIC"
    /\ result.base_pattern = SolUpdown
    /\ ~is_15min_interval_market(result.base_pattern)

\* the identifiers of the two families the code names keep their kind
C31_NamedFamiliesKeepKind ==
    (/\ Classified
     /\ \/ MarkerAt(arg.identifier, <<"b", "t", "c", "-", "u", "p", "d", "o", "w", "n", "-", "1", "5", "m">>, 1)
        \/ MarkerAt(arg.identifier, <<"e", "t", "h", "-", "u", "p", "d", "o", "w", "n", "-", "1", "5", "m">>, 1))
        => (result.kind = "PERIODIC" /\ is_15min_interval_market(result.base_pattern))

\* the next-refresh endpoint has answered
Refreshed == pc = "returned" /\ arg # None /\ arg.fn = "get_next_refresh_time"

\* C33: in every response of the next-refresh endpoint next_interval.timestamp
\* is current_interval.timestamp + 900, also when the clock crosses a window
\* boundary between the clock readings of the endpoint
C33_NextIsCurrentPlusWidth ==
    Refreshed =>
        result.next_interval.timestamp = result.current_interval.timestamp + 900

\* the two differ by 900 when all readings fall into one window
C33_WithinOneWindow ==
    (Refreshed /\ get_current_15min_timestamp(clock) = result.current_interval.timestamp)
        => result.next_interval.timestamp = result.current_interval.timestamp + 900

\* the boundary was crossed between the first and the second reading: the
\* response names the window two widths ahead as the next one
C33_TwoWidthsAhead ==
    /\ Refreshed
    /\ arg.started = 899
    /\ result.current_interval.timestamp = 0
    /\ result.next_interval.timestamp = 1800

---------------------------------------------------------------------------
(* Two identifiers of one family (specification SpecPair)                  *)

\* both identifiers went through the resolver
PairResolved == pc = "done" /\ Len(resolved) = 2 /\ arg.type = "service"

\* C30: a bare periodic identifier and a dated one of the same base pattern,
\* resolved at one instant against one state of the service, yield the same
\* market or both miss
C30_TimestampHasNoInfluence == PairResolved => resolved[1] = resolved[2]

\* as long as the pattern search yields a market, both identifiers get it
C30_SamePatternSearch ==
    (/\ PairResolved
     /\ \/ \E d \in {0 - 1800, 0 - 900, 0, 900} :
              arg.slugs[test_slug(BtcUpdown, get_current_15min_timestamp(ClockStart) + d)] = "ok"
        \/ arg.listing.kind = "ok" /\ arg.listing.body.items # <<>>)
        => resolved[1] # None /\ resolved[1] = resolved[2]

\* only the window named by the dated identifier is open, the candidate
\* windows and the listing have nothing: the bare identifier misses, the
\* dated one resolves to the market of its own slug
C30_DatedAloneResolves ==
    /\ PairResolved
    /\ featured_conditions[2] = BtcUpdownLater
    /\ resolved[1] = None
    /\ resolved[2] # None
    /\ resolved[2].slug = BtcUpdownLater

---------------------------------------------------------------------------
(* Properties of the endpoints behind a session (specification SpecApi)     *)

\* a candidate slug has been formed and taken apart
TakenApart == pc = "returned" /\ arg # None /\ arg.fn = "test_slug"

\* C37: candidate slugs round-trip: for every base pattern b and window start
\* w >= 0, extracting the trailing timestamp from b + "-" + w gives w, and
\* stripping the trailing numeric segment from b + "-" + w gives b
C37_CandidateRoundTrip ==
    (TakenApart /\ arg.window >= 0) =>
        /\ result.embedded_timestamp = PyInt(arg.window)
        /\ result.base_pattern = arg.base

\* the candidate of a base pattern that itself ends in a numeric segment
C37_Witness ==
    /\ TakenApart
    /\ arg.base = StaticSlug
    /\ arg.window = 900
    /\ result.embedded_timestamp = PyInt(900)
    /\ result.base_pattern = StaticSlug

\* the candidate of a family at a ten-digit window start
C37_WitnessFamily ==
    /\ TakenApart
    /\ arg.base = BtcUpdown
    /\ arg.window = 1761921000
    /\ result.embedded_timestamp = PyInt(1761921000)
    /\ result.base_pattern = BtcUpdown

\* a negative timestamp does not round-trip: its sign reads as a separator
C37_NegativeWindowLost ==
    /\ TakenApart
    /\ arg.base = BtcUpdown
    /\ arg.window = 0 - 900
    /\ result.embedded_timestamp = PyInt(900)
    /\ result.base_pattern = BtcUpdown \o <<"-">>

\* the endpoint has answered a request
Answered(endpoint) == result # None /\ result.endpoint = endpoint

\* the order endpoint has handed the order of its request to the trading
\* client
Forwarded == Answered("/order") /\ Len(result.calls) > 0

KnownSession == result.request.session_id \in arg.sessions

\* side is BUY or SELL, 0 < price < 1 and size > 0
ValidOrder(request) ==
    /\ request.side \in {"BUY", "SELL"}
    /\ lt(Float(0), request.price) /\ lt(request.price, Float(10))
    /\ lt(Float(0), request.size)

\* C35: the order endpoint forwards an order to the trading client only when
\* the session_id of the request is in the session store, side is BUY or
\* SELL, 0 < price < 1 and size > 0; a request that fails any of these
\* checks places no order
C35_ForwardedOnlyWhenValid ==
    /\ Forwarded => (KnownSession /\ ValidOrder(result.request))
    /\ \A n \in 1..Len(log) : ValidOrder(log[n].request)

\* an order whose size is nan has reached the trading client: nan <= 0 is
\* False, and so is nan > 0
C35_NaNSizeForwarded ==
    /\ Forwarded
    /\ KnownSession
    /\ result.request.side = "BUY"
    /\ result.request.price = Float(5)
    /\ result.request.size = NaN
    /\ log[Len(log)].request = result.request

\* with a size that is a number, an order is forwarded only when the session
\* is known and side, price and size are valid
C35_NumbersForwardedOnlyWhenValid ==
    (Forwarded /\ result.request.size # NaN)
        => (KnownSession /\ ValidOrder(result.request))

\* the five endpoints that validate the session
SessionEndpoints == {"/deposit", "/order", "/cancel", "/orders", "/balance"}

\* C36: a request to the deposit, order, cancel, orders or balance endpoint
\* whose session_id is not in the session store is answered with status 401,
\* and a request to the order endpoint with an invalid side, price or size is
\* answered with status 400
C36_StatusOfRejection ==
    /\ (result # None /\ result.endpoint \in SessionEndpoints /\ ~KnownSession)
          => result.status = 401
    /\ (Answered("/order") /\ KnownSession /\ ~ValidOrder(result.request))
          => result.status = 400

\* what a request answers that fails the session check or, at the order
\* endpoint, the checks of side, price and size that the code makes: the
\* handler of the endpoint turns the 401 or 400 into 500
C36_RejectionIs500 ==
    /\ (result # None /\ result.endpoint \in SessionEndpoints /\ ~KnownSession)
          => result.status = 500
    /\ (Answered("/order") /\ KnownSession /\ ~ValidOrder(result.request)
            /\ result.request.size # NaN)
          => result.status = 500

\* an order of a forged session has been answered with 500, and no order
\* was placed
C36_UnknownSession500 ==
    /\ Answered("/order")
    /\ ~KnownSession
    /\ result.status = 500
    /\ Len(result.calls) = 0

===========================================================================
